---- MODULE Spec2Model ----
(***************************************************************************)
(* State-machine model of the Codex API Server (src/src/main):             *)
(*   - the Request Gateway of server.ts (auth middleware, /v1/responses,   *)
(*     /v1/chat/completions, /v1/api-keys, server start/stop),             *)
(*   - the Model Router of updater.ts (getProvider),                       *)
(*   - the non-streaming process runner of codex.ts / claude.ts,           *)
(*   - the Tunnel Manager of tunnel.ts,                                    *)
(*   - the streaming path, the status cache and the CLI discovery of the   *)
(*     Agent Managers of codex.ts / claude.ts.                             *)
(* Text is modelled as sequences: API keys, tokens and headers as          *)
(* sequences of character codes (hashKey works on charCodeAt), model names *)
(* as sequences of one-character strings.                                  *)
(***************************************************************************)
EXTENDS Integers, Sequences, FiniteSets, TLC

VARIABLES
  \* ---- Request Gateway (server.ts)
  server,      \* module variable `server`: TRUE when non-null
  db,          \* module variable `db`: TRUE when a database handle is open
  masterKey,   \* the masterKey parameter captured by the routes' closure
  api_keys,    \* table api_keys (the database file outlives restarts)
  responses,   \* table responses
  pending,     \* handlers suspended at `await codexManager.runCommand(...)`
  listening,   \* TRUE while app.listen() succeeded and the server was not closed
  nextKey,     \* number of `key_${uuidv4()}` identifiers handed out
  nextResp,    \* number of generation requests that drew a uuidv4() identifier
  now,         \* Date.now() / 1000, in seconds
  reply,       \* the HTTP reply sent last
  lastAuth,    \* what the auth middleware decided for the last request,
               \* and what the handler's validation found in its body
  issued,      \* history: key id -> plaintext returned at issuance
  revoked,     \* history: plaintexts whose key was revoked or deleted
  \* ---- Model Router (updater.ts)
  rtModel,     \* the model string handed to the router
  rtProvider,  \* what getProvider returned, "unset" before the call
  rtInfo,      \* what getModelInfo returned, NoInfo before the call
  rtCall,      \* the router call in progress: entry point, manager calls, result
  \* ---- non-streaming runner (ClaudeManager.runPrompt, CodexManager.runCommand)
  rnMgr,       \* "claude" (runPrompt) or "codex" (runCommand), "none" before
  rnChild,     \* the child: "none", "alive", "failed" (spawn error), "closed"
  rnKilled,    \* proc.kill() was called
  rnTimer,     \* the setTimeout timer: "none", "armed", "cleared", "fired"
  rnPromise,   \* the returned promise: "none", "pending", "resolved", "rejected"
  rnValue,     \* the value or the error message the promise settled with
  rnOut,       \* `output`: the stdout chunks received so far
  rnErr,       \* `errorOutput`: the stderr chunks received so far
  rnCalls,     \* calls of resolve() and reject() made so far
  rnBy,        \* history: the first of "close", "error", "timeout" to happen
  rnExit,      \* history: the exit code of the close event, NoExit before
  \* ---- Tunnel Manager (tunnel.ts)
  tnProcess,   \* this.process: the call whose child is tracked, 0 for null
  tnUrl,       \* this.url, NoUrl for null
  tnStartedAt, \* this.startedAt, NullTime for null
  tnError,     \* this.error, "" for null
  tnCalls,     \* the start() calls: position, child, timer, closure variables
  tnStopAgain, \* history: the last event was a stop() call that found the
               \* manager stopped
  tnToken,     \* config: tunnelToken and tunnelCustomUrl are stored
  \* ---- streaming path of the Agent Managers (codex.ts, claude.ts)
  amProcs,     \* the spawnInteractive calls: manager, child, history
  amActive,    \* manager -> the ids that are keys of its activeProcesses
  amRet,       \* what the last killProcess/killAllProcesses/getActiveCount
               \* call returned
  \* ---- status cache of the chat Agent Manager (claude.ts)
  csCached,    \* this.cachedStatus, NoCachedStatus for null
  csCacheTime, \* this.cacheTime
  csClock,     \* Date.now(), in units of ten seconds
  csCachedAt,  \* history: the clock when cachedStatus was assigned last
  csCalls,     \* the getStatus() calls: position, `now`, forceRefresh, result
  \* ---- CLI discovery of the Agent Managers (codex.ts, claude.ts)
  lcConfig,    \* config: manager -> its custom path setting, "" when unset
  lcFiles,     \* the paths for which fs.existsSync() answers true
  lcNpmBin,    \* what getNpmGlobalBin() returns, "" for null
  lcPath,      \* manager -> this.codexPath / this.claudePath
  lcPhase,     \* manager -> "new", "which" (the lookup is pending), "done"
  lcWhich,     \* history: manager -> what runWhichCommand resolved with,
               \* "unasked" before, "" for null
  \* ---- usage of a generation reply (server.ts)
  usLens,      \* prompt.length and output.length of the request
  usUsage      \* the usage object of the reply, NoUsage before

gwVars == <<server, db, masterKey, api_keys, responses, pending, listening,
            nextKey, nextResp, now, reply, lastAuth, issued, revoked>>

rtVars == <<rtModel, rtProvider, rtInfo, rtCall>>

rnVars == <<rnMgr, rnChild, rnKilled, rnTimer, rnPromise, rnValue, rnOut, rnErr,
            rnCalls, rnBy, rnExit>>

tnVars ==
  <<tnProcess, tnUrl, tnStartedAt, tnError, tnCalls, tnStopAgain, tnToken>>

amVars == <<amProcs, amActive, amRet>>

csVars == <<csCached, csCacheTime, csClock, csCachedAt, csCalls>>

lcVars == <<lcConfig, lcFiles, lcNpmBin, lcPath, lcPhase, lcWhich>>

usVars == <<usLens, usUsage>>

vars == <<gwVars, rtVars, rnVars, tnVars, amVars, csVars, lcVars, usVars>>

\* what an action of one component leaves alone
nonGateway == <<rtVars, rnVars, tnVars, amVars, csVars, lcVars,
  usVars>>
nonRouter == <<gwVars, rnVars, tnVars, amVars, csVars, lcVars,
  usVars>>
nonRunner == <<gwVars, rtVars, tnVars, amVars, csVars, lcVars,
  usVars>>
nonTunnel == <<gwVars, rtVars, rnVars, amVars, csVars, lcVars,
  usVars>>
nonManagers == <<gwVars, rtVars, rnVars, tnVars, csVars, lcVars,
  usVars>>
nonCache == <<gwVars, rtVars, rnVars, tnVars, amVars, lcVars,
  usVars>>
nonLocator == <<gwVars, rtVars, rnVars, tnVars, amVars, csVars, usVars>>
nonUsage == <<gwVars, rtVars, rnVars, tnVars, amVars, csVars, lcVars>>

----------------------------------------------------------------------------
\* Bounds of the model
MaxIds == 2         \* uuidv4() draws in one behaviour: API keys issued plus
                    \* generation requests (responses, chat) accepted
MaxDays == 2        \* days the clock advances
MaxModelLen == 4    \* length of the generated model strings
MaxChunks == 2      \* data events of one child
MaxStarts == 2      \* start() calls of the Tunnel Manager in one behaviour
MaxProcs == 3       \* spawnInteractive() calls in one behaviour
MaxStatusCalls == 2 \* getStatus() calls of the chat manager in one behaviour
MaxTicks == 4       \* ten-second steps the clock of the status cache advances
MaxChars == 9       \* characters of a prompt and of an agent output

----------------------------------------------------------------------------
\* Text helpers

\* "cdx_", "Bearer " and "..." as character codes
CdxPrefix == <<99, 100, 120, 95>>
BearerPrefix == <<66, 101, 97, 114, 101, 114, 32>>
Ellipsis == <<46, 46, 46>>

\* String.prototype.slice(0, n)
Slice0(s, n) == SubSeq(s, 1, IF Len(s) < n THEN Len(s) ELSE n)

\* s.startsWith(p)
StartsWith(s, p) == Len(s) >= Len(p) /\ SubSeq(s, 1, Len(p)) = p

\* index of the first occurrence of p in s, 0 when there is none
IndexOf(s, p) ==
  LET hits == {i \in 1..(Len(s) - Len(p) + 1) : SubSeq(s, i, i + Len(p) - 1) = p}
  IN IF hits = {} THEN 0 ELSE CHOOSE i \in hits : \A j \in hits : i <= j

\* s.replace(p, '') : the first occurrence of p removed
ReplaceFirst(s, p) ==
  LET i == IndexOf(s, p)
  IN IF i = 0 THEN s ELSE SubSeq(s, 1, i - 1) \o SubSeq(s, i + Len(p), Len(s))

----------------------------------------------------------------------------
\* hashKey (server.ts:117-125) on 32-bit integers kept as two 16-bit halves

Half == 65536

\* one loop iteration: hash = ((hash << 5) - hash) + char; hash = hash & hash.
\* ToInt32 of 32*hash - hash + char is 31*hash + char modulo 2^32.
hashStep(h, char) ==
  LET low == 31 * h.lo + char
  IN [hi |-> (31 * h.hi + (low \div Half)) % Half, lo |-> low % Half]

RECURSIVE hashLoop(_, _, _)
hashLoop(key, i, h) ==
  IF i > Len(key) THEN h ELSE hashLoop(key, i + 1, hashStep(h, key[i]))

\* Math.abs of the int32 whose bit pattern is h (Math.abs(-2^31) is 2^31)
MathAbs(h) ==
  IF h.hi < 32768 THEN h
  ELSE [hi |-> (65535 - h.hi + (IF h.lo = 0 THEN 1 ELSE 0)) % Half,
        lo |-> (Half - h.lo) % Half]

\* the character code of a base-36 digit
Digit36(d) == IF d < 10 THEN 48 + d ELSE 87 + d

\* Number.prototype.toString(36) of a non-negative integer
RECURSIVE toString36(_)
toString36(h) ==
  IF h.hi = 0 /\ h.lo < 36 THEN <<Digit36(h.lo)>>
  ELSE LET t == (h.hi % 36) * Half + h.lo
       IN toString36([hi |-> h.hi \div 36, lo |-> t \div 36]) \o <<Digit36(t % 36)>>

\* 'h_' + Math.abs(hash).toString(36)
hashKey(key) ==
  <<104, 95>> \o toString36(MathAbs(hashLoop(key, 1, [hi |-> 0, lo |-> 0])))

----------------------------------------------------------------------------
\* Model Router (updater.ts:246-253, claude.ts isClaudeModel)

ClaudeWord == <<"c", "l", "a", "u", "d", "e">>
OpusWord == <<"o", "p", "u", "s">>
SonnetWord == <<"s", "o", "n", "n", "e", "t">>
HaikuWord == <<"h", "a", "i", "k", "u">>

\* mutant: the 'haiku' alias is forgotten
isClaudeModel_noHaiku(model) ==
  \/ StartsWith(model, ClaudeWord)
  \/ model = OpusWord
  \/ model = SonnetWord

\* ClaudeManager.isClaudeModel(model)
isClaudeModel(model) ==
  \/ StartsWith(model, ClaudeWord)
  \/ model = OpusWord
  \/ model = SonnetWord
  \/ model = HaikuWord

\* getProvider(model)
getProvider(model) == IF isClaudeModel(model) THEN "claude" ELSE "codex"

\* CLAUDE_MODELS: id, cliModel, displayName
CLAUDE_MODELS ==
  { [id |-> <<"c", "l", "a", "u", "d", "e", "-", "o", "p", "u", "s", "-", "4">>,
     cliModel |-> OpusWord, displayName |-> <<"Claude Opus 4">>],
    [id |-> <<"c", "l", "a", "u", "d", "e", "-", "o", "p", "u", "s", "-", "4", "-", "5">>,
     cliModel |-> OpusWord, displayName |-> <<"Claude Opus 4.5">>],
    [id |-> <<"c", "l", "a", "u", "d", "e", "-", "o", "p", "u", "s", "-", "4", ".", "5">>,
     cliModel |-> OpusWord, displayName |-> <<"Claude Opus 4.5">>],
    [id |-> <<"c", "l", "a", "u", "d", "e", "-", "s", "o", "n", "n", "e", "t", "-", "4">>,
     cliModel |-> SonnetWord, displayName |-> <<"Claude Sonnet 4">>],
    [id |-> <<"c", "l", "a", "u", "d", "e", "-", "s", "o", "n", "n", "e", "t", "-", "4", "-", "5">>,
     cliModel |-> SonnetWord, displayName |-> <<"Claude Sonnet 4.5">>],
    [id |-> <<"c", "l", "a", "u", "d", "e", "-", "s", "o", "n", "n", "e", "t", "-", "4", ".", "5">>,
     cliModel |-> SonnetWord, displayName |-> <<"Claude Sonnet 4.5">>],
    [id |-> <<"c", "l", "a", "u", "d", "e", "-", "h", "a", "i", "k", "u">>,
     cliModel |-> HaikuWord, displayName |-> <<"Claude Haiku">>],
    [id |-> <<"c", "l", "a", "u", "d", "e", "-", "h", "a", "i", "k", "u", "-", "3", "-", "5">>,
     cliModel |-> HaikuWord, displayName |-> <<"Claude Haiku 3.5">>],
    [id |-> <<"o", "p", "u", "s">>,
     cliModel |-> OpusWord, displayName |-> <<"Claude Opus">>],
    [id |-> <<"s", "o", "n", "n", "e", "t">>,
     cliModel |-> SonnetWord, displayName |-> <<"Claude Sonnet">>],
    [id |-> <<"h", "a", "i", "k", "u">>,
     cliModel |-> HaikuWord, displayName |-> <<"Claude Haiku">>] }

\* CODEX_MODELS: id, displayName
CODEX_MODELS ==
  { [id |-> <<"g", "p", "t", "-", "5", ".", "2", "-", "c", "o", "d", "e", "x">>,
     displayName |-> <<"GPT-5.2 Codex">>],
    [id |-> <<"g", "p", "t", "-", "5", ".", "1", "-", "c", "o", "d", "e", "x">>,
     displayName |-> <<"GPT-5.1 Codex">>],
    [id |-> <<"g", "p", "t", "-", "5", ".", "2">>,
     displayName |-> <<"GPT-5.2">>],
    [id |-> <<"g", "p", "t", "-", "5", ".", "1">>,
     displayName |-> <<"GPT-5.1">>],
    [id |-> <<"g", "p", "t", "-", "5">>,
     displayName |-> <<"GPT-5">>],
    [id |-> <<"g", "p", "t", "-", "4", ".", "1">>,
     displayName |-> <<"GPT-4.1">>],
    [id |-> <<"g", "p", "t", "-", "4", ".", "1", "-", "m", "i", "n", "i">>,
     displayName |-> <<"GPT-4.1 Mini">>],
    [id |-> <<"g", "p", "t", "-", "4", "o">>,
     displayName |-> <<"GPT-4o">>],
    [id |-> <<"g", "p", "t", "-", "4", "o", "-", "m", "i", "n", "i">>,
     displayName |-> <<"GPT-4o Mini">>],
    [id |-> <<"o", "3">>,
     displayName |-> <<"O3">>],
    [id |-> <<"o", "3", "-", "m", "i", "n", "i">>,
     displayName |-> <<"O3 Mini">>],
    [id |-> <<"o", "4", "-", "m", "i", "n", "i">>,
     displayName |-> <<"O4 Mini">>],
    [id |-> <<"o", "1">>,
     displayName |-> <<"O1">>],
    [id |-> <<"o", "1", "-", "m", "i", "n", "i">>,
     displayName |-> <<"O1 Mini">>] }

\* registry[model] is defined
inRegistry(registry, model) == \E e \in registry : e.id = model

\* registry[model]
entryOf(registry, model) == CHOOSE e \in registry : e.id = model

\* getModelInfo(model)
getModelInfo(model) ==
  IF getProvider(model) = "claude"
    THEN [id |-> model, provider |-> "claude",
          cliModel |-> IF inRegistry(CLAUDE_MODELS, model)
                         THEN entryOf(CLAUDE_MODELS, model).cliModel
                         ELSE SonnetWord,
          displayName |-> IF inRegistry(CLAUDE_MODELS, model)
                            THEN entryOf(CLAUDE_MODELS, model).displayName
                            ELSE model,
          owned_by |-> "anthropic"]
    ELSE [id |-> model, provider |-> "codex",
          cliModel |-> model,
          displayName |-> IF inRegistry(CODEX_MODELS, model)
                            THEN entryOf(CODEX_MODELS, model).displayName
                            ELSE model,
          owned_by |-> "openai"]

\* no getModelInfo call was made
NoInfo ==
  [id |-> <<>>, provider |-> "unset", cliModel |-> <<>>,
   displayName |-> <<>>, owned_by |-> ""]

----------------------------------------------------------------------------
\* Inputs of the Request Gateway

\* the spec's scenario master key "msk_ABC"; '' is the configured default
MSK == <<109, 115, 107, 95, 65, 66, 67>>
MasterKeys == {<<>>, MSK}

\* hexadecimal tails uuidv4() can contribute to a key: "16428825", "1190b991"
\* (whose keys have the same hashKey) and "4cff6ec7"
UuidHex == { <<49, 54, 52, 50, 56, 56, 50, 53>>,
             <<49, 49, 57, 48, 98, 57, 57, 49>>,
             <<52, 99, 102, 102, 54, 101, 99, 55>> }

\* "random": a token unrelated to every key
RandomToken == <<114, 97, 110, 100, 111, 109>>

KeyPool == {CdxPrefix \o t : t \in UuidHex}
Tokens == {MSK, RandomToken} \cup KeyPool

\* Authorization header values; <<>> is a request without the header
Headers == {<<>>} \cup {BearerPrefix \o t : t \in Tokens}

\* body.scopes of POST /v1/api-keys; ['responses', 'chat'] when absent
DefaultScopes == {"responses", "chat"}
Scopes == {DefaultScopes, {"chat"}}
Names == {"", "test"}                 \* body.name of POST /v1/api-keys
ExpiresInDays == {0, 1}               \* body.expires_in_days, 0 when absent
Inputs == {"", "hello"}               \* body.input, "" when absent
Messages == {"none", "string", "array"} \* body.messages: absent, a string, an array
Outputs == {"", "hi"}                 \* what the agent child prints
AgentErrors == {"Command timeout", "Exit code: 1"}

\* body.model: 'o3', 'opus'
ModelO3 == <<"o", "3">>
RequestModels == {ModelO3, OpusWord}

NoExit == -2                          \* no close event yet
DaySeconds == 86400
NullTime == -1                        \* SQL NULL / JS null in a time column

----------------------------------------------------------------------------
\* Replies

NoReply ==
  [route |-> "none", code |-> 0, json |-> TRUE, status |-> "", id |-> 0,
   output_text |-> "", key |-> <<>>, key_prefix |-> <<>>, error |-> "",
   data |-> {}, agent |-> "none", agent_out |-> ""]

Json(route, code) == [NoReply EXCEPT !.route = route, !.code = code]

\* { error: { message } } with the given status code
ErrorReply(route, code, message) ==
  [Json(route, code) EXCEPT !.error = message]

\* Express's default error handler: status 500 and an HTML page, not JSON
RawError(route) == [Json(route, 500) EXCEPT !.json = FALSE]

----------------------------------------------------------------------------
\* Auth middleware (server.ts:90-114)

\* authHeader.replace('Bearer ', '')
tokenOf(authHeader) == ReplaceFirst(authHeader, BearerPrefix)

\* mutant: the query forgets `AND is_active = 1`
selectActiveKey_anyRow(h) == {r \in api_keys : r.key_hash = h}

\* SELECT * FROM api_keys WHERE key_hash = ? AND is_active = 1
selectActiveKey(h) == {r \in api_keys : r.key_hash = h /\ r.is_active = 1}

authMiddleware(authHeader) ==
  IF masterKey = <<>> THEN [pass |-> TRUE, message |-> ""]
  ELSE IF authHeader = <<>>
    THEN [pass |-> FALSE, message |-> "Missing Authorization header"]
  ELSE IF tokenOf(authHeader) # masterKey
          /\ selectActiveKey(hashKey(tokenOf(authHeader))) = {}
    THEN [pass |-> FALSE, message |-> "Invalid API key"]
  ELSE [pass |-> TRUE, message |-> ""]

\* the row `apiKey` that stmt.get returned, when the middleware ran the query
rowOfRequest(authHeader) ==
  IF masterKey # <<>> /\ authHeader # <<>> /\ tokenOf(authHeader) # masterKey
    THEN selectActiveKey(hashKey(tokenOf(authHeader)))
    ELSE {}

\* History of the decision, in terms of the plaintexts that were issued:
\* the bearer token of the header, and what it was when the middleware ran.
PlainOf(id) == (CHOOSE i \in issued : i.id = id).key
IsBearer(authHeader) == StartsWith(authHeader, BearerPrefix)
BearerOf(authHeader) ==
  SubSeq(authHeader, Len(BearerPrefix) + 1, Len(authHeader))
AuthRecord(authHeader) ==
  LET bearer == IsBearer(authHeader)
      token == IF bearer THEN BearerOf(authHeader) ELSE <<>>
      rows == {r \in api_keys : bearer /\ PlainOf(r.id) = token}
  IN [pass |-> authMiddleware(authHeader).pass,
      header |-> authHeader # <<>>,
      bearer |-> bearer,
      token |-> token,
      masterSet |-> masterKey # <<>>,
      isMaster |-> bearer /\ token = masterKey,
      activeKey |-> \E r \in rows : r.is_active = 1,
      revokedKey |-> bearer /\ token \in revoked,
      inactiveKey |-> \E r \in rows : r.is_active = 0,
      hashActive |-> bearer /\ selectActiveKey(hashKey(token)) # {},
      expiredKey |-> \E r \in rows : r.expires_at # NullTime /\ r.expires_at < now,
      viaKey |-> rowOfRequest(authHeader) # {},
      keyScopes |-> UNION {r.scopes : r \in rowOfRequest(authHeader)},
      body |-> "unread",
      param |-> 0,
      xff |-> "unread"]

NoAuth ==
  [pass |-> FALSE, header |-> FALSE, bearer |-> FALSE, token |-> <<>>,
   masterSet |-> FALSE, isMaster |-> FALSE, activeKey |-> FALSE,
   revokedKey |-> FALSE, inactiveKey |-> FALSE, hashActive |-> FALSE,
   expiredKey |-> FALSE, viaKey |-> FALSE, keyScopes |-> {},
   body |-> "unread", param |-> 0, xff |-> "unread"]

\* the 401 of the middleware; the route handler is not run
Rejected(route, authHeader) ==
  /\ ~authMiddleware(authHeader).pass
  /\ reply' = ErrorReply(route, 401, authMiddleware(authHeader).message)
  /\ lastAuth' = AuthRecord(authHeader)
  /\ UNCHANGED <<server, db, masterKey, api_keys, responses, pending,
                 listening, nextKey, nextResp, now, issued, revoked>>

\* next(): the route handler runs
Admitted(authHeader) ==
  /\ authMiddleware(authHeader).pass
  /\ lastAuth' = AuthRecord(authHeader)

\* next() into a handler that reads req.params.id
AdmittedParam(authHeader, id) ==
  /\ authMiddleware(authHeader).pass
  /\ lastAuth' = [AuthRecord(authHeader) EXCEPT !.param = id]

\* next() into a handler that validates the request body: `missing` is what
\* its test of the required field finds
AdmittedBody(authHeader, missing) ==
  /\ authMiddleware(authHeader).pass
  /\ lastAuth' = [AuthRecord(authHeader) EXCEPT
                    !.body = IF missing THEN "missing" ELSE "present"]

----------------------------------------------------------------------------
\* Streaming path of the Agent Managers: activeProcesses, spawnInteractive,
\* killProcess, killAllProcesses, getActiveCount (codex.ts:564-675,
\* claude.ts:654-729)

\* the status cache of the chat manager after construction
CACHE_TTL == 3
ClockStart == 10
NoCachedStatus == [installed |-> "null", version |-> "null"]
NoStatusCall ==
  [pc |-> "unused", now |-> 0, force |-> FALSE, hit |-> FALSE,
   result |-> NoCachedStatus]

CacheIdle ==
  /\ csCached = NoCachedStatus
  /\ csCacheTime = 0
  /\ csClock = ClockStart
  /\ csCachedAt = 0
  /\ csCalls = [i \in 1..MaxStatusCalls |-> NoStatusCall]

Managers == {"codex", "claude"}
ProcIds == 1..MaxProcs

\* a spawnInteractive call that was not made
NoProc ==
  [mgr |-> "none", child |-> "none", signalled |-> FALSE, spawned |-> FALSE,
   ended |-> FALSE, killed |-> FALSE, callback |-> "none",
   terminals |-> <<>>, exit |-> NoExit]

\* no return value yet
NoRet == [op |-> "none", mgr |-> "none", id |-> 0, value |-> 0]

\* the path fields as declared (codex.ts:23, claude.ts:44)
BareName == [codex |-> "codex", claude |-> "claude"]

\* no manager was constructed yet
LocatorFresh ==
  /\ lcPath = BareName
  /\ lcPhase = [m \in Managers |-> "new"]
  /\ lcWhich = [m \in Managers |-> "unasked"]

\* a machine with no override, no CLI file and no package-manager directory
LocatorIdle ==
  /\ lcConfig = [m \in Managers |-> ""]
  /\ lcFiles = {}
  /\ lcNpmBin = ""
  /\ LocatorFresh

StreamsIdle ==
  /\ amProcs = [id \in ProcIds |-> NoProc]
  /\ amActive = [m \in Managers |-> {}]
  /\ amRet = NoRet
  /\ CacheIdle

\* no usage object was computed yet
NoUsage == [route |-> "none", input |-> 0, output |-> 0, total |-> 0]
UsageIdle ==
  /\ usLens = [prompt |-> 0, output |-> 0]
  /\ usUsage = NoUsage

ManagersIdle == StreamsIdle /\ LocatorIdle /\ UsageIdle

\* proc.process.kill('SIGTERM') for every id of `ids`; history: killed
signalAll(procs, ids) ==
  [id \in ProcIds |->
     IF id \in ids
       THEN [procs[id] EXCEPT !.signalled = TRUE, !.killed = TRUE]
       ELSE procs[id]]

\* a variant that signals the child and keeps its entry
killProcess_keepsEntry(mgr, id) ==
  IF id \in amActive[mgr]
    THEN /\ amProcs' = signalAll(amProcs, {id})
         /\ amActive' = amActive
         /\ amRet' = [op |-> "killProcess", mgr |-> mgr, id |-> id, value |-> 1]
    ELSE /\ amRet' = [op |-> "killProcess", mgr |-> mgr, id |-> id, value |-> 0]
         /\ UNCHANGED <<amProcs, amActive>>

\* killProcess(id): value 1 stands for true, 0 for false
killProcess(mgr, id) ==
  IF id \in amActive[mgr]
    THEN /\ amProcs' = signalAll(amProcs, {id})
         /\ amActive' = [amActive EXCEPT ![mgr] = @ \ {id}]
         /\ amRet' = [op |-> "killProcess", mgr |-> mgr, id |-> id, value |-> 1]
    ELSE /\ amRet' = [op |-> "killProcess", mgr |-> mgr, id |-> id, value |-> 0]
         /\ UNCHANGED <<amProcs, amActive>>

\* killAllProcesses(): the loop and the clear(), without the return value
killAllProcesses(mgr) ==
  /\ amProcs' = signalAll(amProcs, amActive[mgr])
  /\ amActive' = [amActive EXCEPT ![mgr] = {}]

\* getActiveCount()
getActiveCount(mgr) == Cardinality(amActive[mgr])

----------------------------------------------------------------------------
\* Tunnel Manager state (tunnel.ts:263-283)

NoUrl == <<>>
NoStatus == [active |-> FALSE, url |-> NoUrl, startedAt |-> NullTime,
             error |-> "unset"]

\* a start() call that was not made yet
NoCall ==
  [pc |-> "unused", child |-> "none", signalled |-> FALSE, timer |-> "none",
   resolved |-> FALSE, result |-> NoStatus, nData |-> 0,
   wrote |-> NoUrl, marker |-> FALSE, stopSeen |-> FALSE, by |-> "none",
   cut |-> <<>>]

TunnelFields ==
  /\ tnProcess = 0
  /\ tnUrl = NoUrl
  /\ tnStartedAt = NullTime
  /\ tnError = ""
  /\ tnCalls = [i \in 1..MaxStarts |-> NoCall]
  /\ tnStopAgain = FALSE

\* the defaults of the configuration store no tunnel token
TunnelInit == TunnelFields /\ tnToken = FALSE

\* history: stop() ran while the child of a call existed
markStop(calls) ==
  [i \in 1..MaxStarts |->
     IF calls[i].child = "none" THEN calls[i]
     ELSE [calls[i] EXCEPT !.stopSeen = TRUE]]

\* this.process.kill('SIGTERM') on the tracked child
killTracked(calls) ==
  IF tnProcess = 0 THEN calls
  ELSE [calls EXCEPT ![tnProcess].signalled = TRUE]

\* a variant of stop() that also forgets the error
stop_clearsError ==
  /\ tnCalls' = markStop(killTracked(tnCalls))
  /\ tnProcess' = 0
  /\ tnUrl' = NoUrl
  /\ tnStartedAt' = NullTime
  /\ tnError' = ""

\* stop(): SIGTERM to the tracked child, then the fields are cleared; the
\* error is kept
stop ==
  /\ tnCalls' = markStop(killTracked(tnCalls))
  /\ tnProcess' = 0
  /\ tnUrl' = NoUrl
  /\ tnStartedAt' = NullTime
  /\ UNCHANGED tnError

----------------------------------------------------------------------------
\* Server lifecycle (server.ts:66-78, 493-519)

\* The event loop handles one event at a time: the reply of a request is on
\* its way to the client (Deliver) before the next event is handled.
Quiet == reply = NoReply /\ lastAuth = NoAuth

tables == <<api_keys, responses, issued, revoked>>
counters == <<nextKey, nextResp, now>>
lifecycle == <<server, db, masterKey, listening>>

\* startServer(port, masterKey): returns at once when `server` is set;
\* otherwise opens the database and listens. `ok` is whether the port is free.
StartServer(mk, ok) ==
  /\ Quiet
  /\ UNCHANGED nonGateway
  /\ ~server
  /\ server' = TRUE
  /\ db' = TRUE
  /\ masterKey' = mk
  /\ listening' = ok
  /\ UNCHANGED <<tables, counters, pending, reply, lastAuth>>

\* stopServer(): closes the listener and the database and stops the tunnel;
\* killAllProcesses() reaches the streaming children only, so handlers that
\* await a non-streaming child are not cancelled
StopServer ==
  /\ Quiet
  /\ stop
  /\ killAllProcesses("codex")
  /\ UNCHANGED <<tnStopAgain, tnToken, rtVars, rnVars, amRet, csVars, lcVars,
               usVars>>
  /\ server
  /\ server' = FALSE
  /\ listening' = FALSE
  /\ db' = FALSE
  /\ UNCHANGED <<masterKey, tables, counters, pending, reply, lastAuth>>

\* time passes, one day at a time
Tick ==
  /\ Quiet
  /\ UNCHANGED nonGateway
  /\ now < MaxDays * DaySeconds
  /\ now' = now + DaySeconds
  /\ UNCHANGED <<lifecycle, tables, nextKey, nextResp, pending, reply, lastAuth>>

----------------------------------------------------------------------------
\* Responses API (server.ts:180-290)

RouteResponses == "POST /v1/responses"

\* a variant of the row that is keyed by a constant instead of responseId
completedRow_fixedId(p, output) ==
  [id |-> 0, model |-> p.model, status |-> "completed", output_text |-> output]

\* the row written by INSERT INTO responses (server.ts:223-230)
completedRow(p, output) ==
  [id |-> p.id, model |-> p.model, status |-> "completed", output_text |-> output]

\* mutant: the catch branch persists a failed row
storeAfterFailure_persist(p) ==
  responses \cup {[id |-> p.id, model |-> p.model, status |-> "failed",
                    output_text |-> ""]}

\* the store after the catch branch of POST /v1/responses (server.ts:233-243)
storeAfterFailure(p) == responses

\* up to the await: validation, the response id, the agent that is invoked
\* a variant of the validation that lets every body through
missingInput_never(input) == FALSE

\* if (!input)
missingInput(input) == input = ""

PostResponses(authHeader, model, input) ==
  /\ Quiet
  /\ UNCHANGED nonGateway
  /\ listening
  /\ \/ Rejected(RouteResponses, authHeader)
     \/ /\ AdmittedBody(authHeader, input = "")
        /\ missingInput(input)
        /\ reply' = ErrorReply(RouteResponses, 400, "input is required")
        /\ UNCHANGED <<lifecycle, tables, counters, pending>>
     \/ /\ AdmittedBody(authHeader, input = "")
        /\ ~missingInput(input)
        /\ nextKey + nextResp < MaxIds
        /\ nextResp' = nextResp + 1
        /\ pending' = pending \cup
             {[kind |-> "responses", id |-> nextResp + 1, model |-> model,
               backend |-> "codex"]}
        /\ UNCHANGED <<lifecycle, tables, nextKey, now, reply>>

\* runCommand resolved with `output`: the row is inserted and the response sent;
\* db!.prepare throws when stopServer() has set db to null, INSERT throws on a
\* duplicate id, and the catch branch answers
ResponsesResolved(p, output) ==
  /\ Quiet
  /\ UNCHANGED nonGateway
  /\ p \in pending
  /\ p.kind = "responses"
  /\ pending' = pending \ {p}
  /\ IF db /\ ~(\E r \in responses : r.id = p.id)
       THEN /\ responses' = responses \cup {completedRow(p, output)}
            /\ reply' = [Json(RouteResponses, 200) EXCEPT
                           !.id = p.id, !.status = "completed",
                           !.output_text = output,
                           !.agent = "resolved", !.agent_out = output]
       ELSE /\ responses' = storeAfterFailure(p)
            /\ reply' = [Json(RouteResponses, 500) EXCEPT
                           !.id = p.id, !.status = "failed",
                           !.error = "Cannot read properties of null",
                           !.agent = "resolved", !.agent_out = output]
  /\ UNCHANGED <<lifecycle, api_keys, issued, revoked, counters, lastAuth>>

\* runCommand rejected (non-zero exit, spawn error, timeout)
ResponsesRejected(p, errMsg) ==
  /\ Quiet
  /\ UNCHANGED nonGateway
  /\ p \in pending
  /\ p.kind = "responses"
  /\ pending' = pending \ {p}
  /\ responses' = storeAfterFailure(p)
  /\ reply' = [Json(RouteResponses, 500) EXCEPT
                 !.id = p.id, !.status = "failed", !.error = errMsg,
                 !.agent = "rejected"]
  /\ UNCHANGED <<lifecycle, api_keys, issued, revoked, counters, lastAuth>>

RouteGetResponse == "GET /v1/responses/:id"
RouteDeleteResponse == "DELETE /v1/responses/:id"

GetResponse(authHeader, id) ==
  /\ Quiet
  /\ UNCHANGED nonGateway
  /\ listening
  /\ \/ Rejected("GET /v1/responses/:id", authHeader)
     \/ /\ AdmittedParam(authHeader, id)
        /\ reply' =
             IF \E r \in responses : r.id = id
               THEN LET row == CHOOSE r \in responses : r.id = id
                    IN [Json("GET /v1/responses/:id", 200) EXCEPT
                          !.id = row.id, !.status = row.status,
                          !.output_text = row.output_text]
               ELSE ErrorReply("GET /v1/responses/:id", 404, "Response not found")
        /\ UNCHANGED <<lifecycle, tables, counters, pending>>

\* a variant of the statement without its WHERE clause
deleteResponseRows_all(id) == {}

\* DELETE FROM responses WHERE id = ?
deleteResponseRows(id) == {r \in responses : r.id # id}

DeleteResponse(authHeader, id) ==
  /\ Quiet
  /\ UNCHANGED nonGateway
  /\ listening
  /\ \/ Rejected("DELETE /v1/responses/:id", authHeader)
     \/ /\ AdmittedParam(authHeader, id)
        /\ responses' = deleteResponseRows(id)
        /\ reply' =
             IF \E r \in responses : r.id = id
               THEN [Json("DELETE /v1/responses/:id", 200) EXCEPT !.id = id]
               ELSE ErrorReply("DELETE /v1/responses/:id", 404, "Response not found")
        /\ UNCHANGED <<lifecycle, api_keys, issued, revoked, counters, pending>>

----------------------------------------------------------------------------
\* Chat Completions API (server.ts:296-330)

RouteChat == "POST /v1/chat/completions"

\* if (!messages || !Array.isArray(messages))
badMessages(messages) == messages # "array"

PostChat(authHeader, model, messages) ==
  /\ Quiet
  /\ UNCHANGED nonGateway
  /\ listening
  /\ \/ Rejected(RouteChat, authHeader)
     \/ /\ AdmittedBody(authHeader, messages # "array")
        /\ badMessages(messages)
        /\ reply' = ErrorReply(RouteChat, 400, "messages array is required")
        /\ UNCHANGED <<lifecycle, tables, counters, pending>>
     \/ /\ AdmittedBody(authHeader, messages # "array")
        /\ ~badMessages(messages)
        /\ nextKey + nextResp < MaxIds
        /\ nextResp' = nextResp + 1
        /\ pending' = pending \cup
             {[kind |-> "chat", id |-> nextResp + 1, model |-> model,
               backend |-> "codex"]}
        /\ UNCHANGED <<lifecycle, tables, nextKey, now, reply>>

\* a variant of the try block that shares the persistence of the Responses API
chatStore_persist(p, output) == responses \cup {completedRow(p, output)}

\* the store after the try block of POST /v1/chat/completions, which holds
\* no database statement (server.ts:306-324)
chatStore(p, output) == responses

ChatResolved(p, output) ==
  /\ Quiet
  /\ UNCHANGED nonGateway
  /\ p \in pending
  /\ p.kind = "chat"
  /\ pending' = pending \ {p}
  /\ responses' = chatStore(p, output)
  /\ reply' = [Json(RouteChat, 200) EXCEPT
                 !.output_text = output, !.agent = "resolved",
                 !.agent_out = output]
  /\ UNCHANGED <<lifecycle, api_keys, issued, revoked, counters, lastAuth>>

ChatRejected(p, errMsg) ==
  /\ Quiet
  /\ UNCHANGED nonGateway
  /\ p \in pending
  /\ p.kind = "chat"
  /\ pending' = pending \ {p}
  /\ reply' = [ErrorReply(RouteChat, 500, errMsg) EXCEPT !.agent = "rejected"]
  /\ UNCHANGED <<lifecycle, tables, counters, lastAuth>>

----------------------------------------------------------------------------
\* API Keys Management (server.ts:336-433)

RouteIssue == "POST /v1/api-keys"
RouteListKeys == "GET /v1/api-keys"
RouteGetKey == "GET /v1/api-keys/:id"
RouteRevoke == "POST /v1/api-keys/:id/revoke"
RouteDeleteKey == "DELETE /v1/api-keys/:id"

\* `cdx_${uuid}${uuid.slice(0, 8)}`, with the hexadecimal part drawn by uuidv4()
plainKeyOf(hex) == CdxPrefix \o hex

\* mutant: the prefix is not cut
keyPrefixOf_whole(plainKey) == plainKey

\* plainKey.slice(0, 8)
keyPrefixOf(plainKey) == Slice0(plainKey, 8)

\* expires_in_days ? createdAt + (expires_in_days * 86400) : null
expiresAtOf(createdAt, expires_in_days) ==
  IF expires_in_days # 0 THEN createdAt + (expires_in_days * DaySeconds)
  ELSE NullTime

\* the row of INSERT INTO api_keys; is_active takes its DEFAULT 1
keyRow(id, name, plainKey, expires_in_days, scopes) ==
  [id |-> id, name |-> name, key_hash |-> hashKey(plainKey), scopes |-> scopes,
   key_prefix |-> keyPrefixOf(plainKey), is_active |-> 1,
   expires_at |-> expiresAtOf(now, expires_in_days), created_at |-> now]

\* `${r.key_prefix}...` and the fields the read routes show
redacted(r) ==
  [id |-> r.id, key |-> r.key_prefix \o Ellipsis, is_active |-> r.is_active = 1,
   expires_at |-> r.expires_at]

\* the handler has no try/catch: a UNIQUE violation on key_hash (or a
\* duplicate id) leaves the handler as an exception
PostApiKey(authHeader, name, expires_in_days, scopes, hex) ==
  /\ Quiet
  /\ UNCHANGED nonGateway
  /\ listening
  /\ \/ Rejected(RouteIssue, authHeader)
     \/ /\ Admitted(authHeader)
        /\ name = ""
        /\ reply' = ErrorReply(RouteIssue, 400, "name is required")
        /\ UNCHANGED <<lifecycle, tables, counters, pending>>
     \/ /\ Admitted(authHeader)
        /\ name # ""
        /\ nextKey + nextResp < MaxIds
        /\ \A i \in issued : i.key # plainKeyOf(hex)
        /\ nextKey' = nextKey + 1
        /\ LET row == keyRow(nextKey + 1, name, plainKeyOf(hex), expires_in_days,
                             scopes)
           IN IF \E r \in api_keys : r.key_hash = row.key_hash \/ r.id = row.id
                THEN /\ reply' = RawError(RouteIssue)
                     /\ UNCHANGED <<api_keys, issued>>
                ELSE /\ api_keys' = api_keys \cup {row}
                     /\ issued' = issued \cup
                          {[id |-> row.id, key |-> plainKeyOf(hex)]}
                     /\ reply' = [Json(RouteIssue, 200) EXCEPT
                                    !.id = row.id, !.key = plainKeyOf(hex),
                                    !.key_prefix = row.key_prefix]
        /\ UNCHANGED <<lifecycle, responses, revoked, nextResp, now, pending>>

ListApiKeys(authHeader, includeInactive) ==
  /\ Quiet
  /\ UNCHANGED nonGateway
  /\ listening
  /\ \/ Rejected(RouteListKeys, authHeader)
     \/ /\ Admitted(authHeader)
        /\ reply' = [Json(RouteListKeys, 200) EXCEPT
                       !.data = {redacted(r) : r \in
                                   {x \in api_keys :
                                      includeInactive \/ x.is_active = 1}}]
        /\ UNCHANGED <<lifecycle, tables, counters, pending>>

GetApiKey(authHeader, id) ==
  /\ Quiet
  /\ UNCHANGED nonGateway
  /\ listening
  /\ \/ Rejected(RouteGetKey, authHeader)
     \/ /\ Admitted(authHeader)
        /\ reply' =
             IF \E r \in api_keys : r.id = id
               THEN LET row == CHOOSE r \in api_keys : r.id = id
                    IN [Json(RouteGetKey, 200) EXCEPT
                          !.id = row.id, !.key = redacted(row).key]
               ELSE ErrorReply(RouteGetKey, 404, "API key not found")
        /\ UNCHANGED <<lifecycle, tables, counters, pending>>

\* UPDATE api_keys SET is_active = 0 WHERE id = ?
revokeRows(id) ==
  {IF r.id = id THEN [r EXCEPT !.is_active = 0] ELSE r : r \in api_keys}

RevokeApiKey(authHeader, id) ==
  /\ Quiet
  /\ UNCHANGED nonGateway
  /\ listening
  /\ \/ Rejected(RouteRevoke, authHeader)
     \/ /\ Admitted(authHeader)
        /\ api_keys' = revokeRows(id)
        /\ revoked' = revoked \cup {i.key : i \in {x \in issued :
                         x.id = id /\ \E r \in api_keys : r.id = id}}
        /\ reply' =
             IF \E r \in api_keys : r.id = id
               THEN [Json(RouteRevoke, 200) EXCEPT !.id = id]
               ELSE ErrorReply(RouteRevoke, 404, "API key not found")
        /\ UNCHANGED <<lifecycle, responses, issued, counters, pending>>

\* DELETE FROM api_keys WHERE id = ?
DeleteApiKey(authHeader, id) ==
  /\ Quiet
  /\ UNCHANGED nonGateway
  /\ listening
  /\ \/ Rejected(RouteDeleteKey, authHeader)
     \/ /\ Admitted(authHeader)
        /\ api_keys' = {r \in api_keys : r.id # id}
        /\ revoked' = revoked \cup {i.key : i \in {x \in issued :
                         x.id = id /\ \E r \in api_keys : r.id = id}}
        /\ reply' =
             IF \E r \in api_keys : r.id = id
               THEN [Json(RouteDeleteKey, 200) EXCEPT !.id = id]
               ELSE ErrorReply(RouteDeleteKey, 404, "API key not found")
        /\ UNCHANGED <<lifecycle, responses, issued, counters, pending>>

----------------------------------------------------------------------------
\* The Request Gateway as a state machine

GatewayInit ==
  /\ server = FALSE
  /\ db = FALSE
  /\ listening = FALSE
  /\ masterKey = <<>>
  /\ api_keys = {}
  /\ responses = {}
  /\ pending = {}
  /\ nextKey = 0
  /\ nextResp = 0
  /\ now = 0
  /\ reply = NoReply
  /\ lastAuth = NoAuth
  /\ issued = {}
  /\ revoked = {}

\* no router call was made: no manager was invoked, nothing was returned
NoRouterCall ==
  [entry |-> "none", pc |-> "idle", invoked |-> {}, produced |-> "none",
   text |-> "", settled |-> "none", output |-> "", provider |-> "unset",
   processId |-> ""]

RouterIdle ==
  /\ rtModel = <<>>
  /\ rtProvider = "unset"
  /\ rtInfo = NoInfo
  /\ rtCall = NoRouterCall

RunnerIdle ==
  /\ rnMgr = "none"
  /\ rnChild = "none"
  /\ rnKilled = FALSE
  /\ rnTimer = "none"
  /\ rnPromise = "none"
  /\ rnValue = <<>>
  /\ rnOut = <<>>
  /\ rnErr = <<>>
  /\ rnCalls = 0
  /\ rnBy = "none"
  /\ rnExit = NoExit

Init == GatewayInit /\ RouterIdle /\ RunnerIdle /\ TunnelInit /\ ManagersIdle

KeyIds == 1..MaxIds
ResponseIds == 1..MaxIds

Deliver ==
  /\ ~Quiet
  /\ UNCHANGED nonGateway
  /\ reply' = NoReply
  /\ lastAuth' = NoAuth
  /\ UNCHANGED <<lifecycle, tables, counters, pending>>

Next ==
  \/ \E mk \in MasterKeys, ok \in BOOLEAN : StartServer(mk, ok)
  \/ StopServer
  \/ Tick
  \/ \E h \in Headers, m \in RequestModels, i \in Inputs : PostResponses(h, m, i)
  \/ \E p \in pending, t \in Outputs : ResponsesResolved(p, t)
  \/ \E p \in pending, e \in AgentErrors : ResponsesRejected(p, e)
  \/ \E h \in Headers, id \in ResponseIds : GetResponse(h, id)
  \/ \E h \in Headers, id \in ResponseIds : DeleteResponse(h, id)
  \/ \E h \in Headers, m \in RequestModels, ms \in Messages : PostChat(h, m, ms)
  \/ \E p \in pending, t \in Outputs : ChatResolved(p, t)
  \/ \E p \in pending, e \in AgentErrors : ChatRejected(p, e)
  \/ \E h \in Headers, n \in Names, d \in ExpiresInDays, x \in UuidHex :
       PostApiKey(h, n, d, DefaultScopes, x)
  \/ \E h \in Headers, inc \in BOOLEAN : ListApiKeys(h, inc)
  \/ \E h \in Headers, id \in KeyIds : GetApiKey(h, id)
  \/ \E h \in Headers, id \in KeyIds : RevokeApiKey(h, id)
  \/ \E h \in Headers, id \in KeyIds : DeleteApiKey(h, id)
  \/ Deliver

Spec == Init /\ [][Next]_vars

\* The gateway seen from local and from forwarded clients.  A request carries
\* the header x-forwarded-for ("present") or not ("absent").
RouteListResponses == "GET /v1/responses"
RouteHealth == "GET /health"
RouteModels == "GET /v1/models"

\* DEFAULT_CONFIG.allowLocalWithoutAuth
allowLocalWithoutAuth == TRUE

\* req.headers['x-forwarded-for'] of the request
originOf(forwarded) == IF forwarded THEN "present" ELSE "absent"

\* GET /v1/responses: authMiddleware, then the rows of the store
ListResponses(authHeader, forwarded) ==
  /\ Quiet
  /\ UNCHANGED nonGateway
  /\ listening
  /\ lastAuth' = [AuthRecord(authHeader) EXCEPT !.xff = originOf(forwarded)]
  /\ reply' = IF authMiddleware(authHeader).pass
                THEN [Json(RouteListResponses, 200) EXCEPT !.data = responses]
                ELSE ErrorReply(RouteListResponses, 401,
                                authMiddleware(authHeader).message)
  /\ UNCHANGED <<lifecycle, tables, counters, pending>>

\* GET /health: no middleware
Health(forwarded) ==
  /\ Quiet
  /\ UNCHANGED nonGateway
  /\ listening
  /\ lastAuth' = [NoAuth EXCEPT !.xff = originOf(forwarded)]
  /\ reply' = [Json(RouteHealth, 200) EXCEPT !.status = "ok"]
  /\ UNCHANGED <<lifecycle, tables, counters, pending>>

\* GET /v1/models: no middleware
GetModels(forwarded) ==
  /\ Quiet
  /\ UNCHANGED nonGateway
  /\ listening
  /\ lastAuth' = [NoAuth EXCEPT !.xff = originOf(forwarded)]
  /\ reply' = Json(RouteModels, 200)
  /\ UNCHANGED <<lifecycle, tables, counters, pending>>

NextOrigin ==
  \/ \E mk \in MasterKeys : StartServer(mk, TRUE)
  \/ \E h \in Headers, x \in UuidHex : PostApiKey(h, "test", 0, DefaultScopes, x)
  \/ \E h \in Headers, id \in KeyIds : RevokeApiKey(h, id)
  \/ \E h \in Headers, f \in BOOLEAN : ListResponses(h, f)
  \/ \E f \in BOOLEAN : Health(f)
  \/ \E f \in BOOLEAN : GetModels(f)
  \/ Deliver

InitOrigin == Init

SpecOrigin == InitOrigin /\ [][NextOrigin]_vars

\* The gateway behind a configured master key, with clients that choose the
\* scopes of the keys they issue
NextScopes ==
  \/ StartServer(MSK, TRUE)
  \/ Tick
  \/ \E h \in Headers : PostResponses(h, ModelO3, "hello")
  \/ \E p \in pending, t \in Outputs : ResponsesResolved(p, t)
  \/ \E h \in Headers, id \in ResponseIds : GetResponse(h, id)
  \/ \E h \in Headers, id \in ResponseIds : DeleteResponse(h, id)
  \/ \E h \in Headers : PostChat(h, ModelO3, "array")
  \/ \E p \in pending, t \in Outputs : ChatResolved(p, t)
  \/ \E h \in Headers, sc \in Scopes, x \in UuidHex :
       PostApiKey(h, "test", 0, sc, x)
  \/ \E h \in Headers, id \in KeyIds : GetApiKey(h, id)
  \/ \E h \in Headers, id \in KeyIds : RevokeApiKey(h, id)
  \/ \E h \in Headers, id \in KeyIds : DeleteApiKey(h, id)
  \/ Deliver

InitScopes == Init

SpecScopes == InitScopes /\ [][NextScopes]_vars

----------------------------------------------------------------------------
\* Claims about the Request Gateway

\* C1: every POST /v1/responses whose agent invocation succeeds with text t
\* is answered 200 with status "completed" and output_text = t, and the
\* store then holds exactly one row with the reply's id, completed, with t.
C1_CompletedAndStored ==
  (reply.route = RouteResponses /\ reply.agent = "resolved") =>
    /\ reply.code = 200
    /\ reply.status = "completed"
    /\ reply.output_text = reply.agent_out
    /\ Cardinality({r \in responses : r.id = reply.id}) = 1
    /\ \A r \in responses :
         r.id = reply.id =>
           r.status = "completed" /\ r.output_text = reply.agent_out

\* C2: when the agent invocation of POST /v1/responses fails, the reply is
\* HTTP 500 with status "failed" and an error message, the responses store
\* is unchanged, and no row with the response id exists before or after.
C2_FailureStoresNothing ==
  [][(reply' # reply /\ reply'.route = RouteResponses
        /\ reply'.agent = "rejected") =>
       /\ reply'.code = 500
       /\ reply'.status = "failed"
       /\ reply'.error # ""
       /\ responses' = responses
       /\ \A r \in responses \cup responses' : r.id # reply'.id]_vars

\* C2 witness: a failed generation answered while another response is stored
C2_Witness ==
  /\ reply.route = RouteResponses
  /\ reply.agent = "rejected"
  /\ reply.code = 500
  /\ responses # {}

\* C3: with no master key every request passes; with a master key a request
\* passes exactly when its bearer token is the master key or the plaintext
\* of a stored active key; every other request gets 401 {error:{message}}.
C3_AuthDecision ==
  lastAuth # NoAuth =>
    /\ ~lastAuth.masterSet => lastAuth.pass
    /\ lastAuth.masterSet =>
         (lastAuth.pass <=> (lastAuth.isMaster \/ lastAuth.activeKey))
    /\ ~lastAuth.pass => (reply.code = 401 /\ reply.error # "")

C4_RejectState ==
  (lastAuth.masterSet /\ ~lastAuth.isMaster
     /\ (lastAuth.inactiveKey \/ (lastAuth.revokedKey /\ ~lastAuth.hashActive)))
    => (~lastAuth.pass /\ reply.code = 401)

\* C4 (amended), step part: no operation re-activates a revoked key
C4_NoReactivation ==
  \A r \in api_keys : \A r2 \in api_keys' :
    (r.is_active = 0 /\ r2.id = r.id) => r2.is_active = 0

C5_ExpiredRejected ==
  (lastAuth.masterSet /\ lastAuth.expiredKey /\ ~lastAuth.isMaster) =>
    (~lastAuth.pass /\ reply.code = 401)

\* C6: the plaintext of a key appears only in the reply of the POST that
\* issued it, whose key_prefix is the key's first 8 characters; no row holds
\* it, and GET replies show key_prefix followed by "...".
C6_PlaintextOnlyAtIssuance ==
  /\ \A i \in issued :
       /\ \A r \in api_keys : r.key_hash # i.key /\ r.key_prefix # i.key
       /\ \A e \in reply.data : e.key # i.key
       /\ reply.key = i.key =>
            /\ reply.route = RouteIssue
            /\ reply.code = 200
            /\ reply.id = i.id
            /\ Len(reply.key_prefix) = 8
            /\ \A k \in 1..8 : reply.key_prefix[k] = i.key[k]
  /\ (reply.route = RouteIssue /\ reply.code = 200) =>
       [id |-> reply.id, key |-> reply.key] \in issued
  /\ (reply.route = RouteGetKey /\ reply.code = 200) =>
       \E r \in api_keys :
         r.id = reply.id /\ reply.key = r.key_prefix \o Ellipsis
  /\ \A e \in reply.data :
       \E r \in api_keys : r.id = e.id /\ e.key = r.key_prefix \o Ellipsis

\* C6 witness: an issued key is read back through GET /v1/api-keys/:id
C6_Witness ==
  /\ reply.route = RouteGetKey
  /\ reply.code = 200
  /\ \E i \in issued : i.id = reply.id

\* C7: the backend invoked for a generation request is the one getProvider
\* resolves from the request's model: the chat agent exactly when
\* getProvider(model) is the chat provider, otherwise the code agent.
C7_BackendIsRouted ==
  \A p \in pending : p.backend = getProvider(p.model)

\* C17: validation comes before any effect: an admitted POST /v1/responses
\* without input, and an admitted POST /v1/chat/completions whose messages
\* are missing or not an array, is answered 400 with {error:{message}};
\* no agent child is spawned and no row is stored.
C17_ValidationBeforeEffect ==
  [][(lastAuth = NoAuth /\ lastAuth'.body = "missing") =>
       /\ reply'.code = 400
       /\ reply'.json
       /\ reply'.error # ""
       /\ reply'.route \in {RouteResponses, RouteChat}
       /\ <<pending, responses, api_keys, nextResp>>' =
            <<pending, responses, api_keys, nextResp>>]_vars

\* C17 witness: an admitted request without input was answered 400 while an
\* earlier request's agent child is still running
C17_Witness ==
  /\ reply.route = RouteResponses
  /\ reply.code = 400
  /\ lastAuth.pass
  /\ lastAuth.body = "missing"
  /\ pending # {}
  /\ responses = {}

\* C18: for every response id x, an admitted GET /v1/responses/:x and
\* DELETE /v1/responses/:x answer 404 exactly when no row with id x is
\* stored, and 200 otherwise; GET changes no row; a successful DELETE removes
\* the row x and no other, so that no row x is left for a later GET or DELETE.
C18_NotFoundExactlyWhenAbsent ==
  [][(lastAuth = NoAuth /\ lastAuth'.pass
        /\ reply'.route \in {RouteGetResponse, RouteDeleteResponse}) =>
       LET x == lastAuth'.param
           present == \E r \in responses : r.id = x
       IN /\ reply'.code = 404 <=> ~present
          /\ reply'.code = 200 <=> present
          /\ reply'.route = RouteGetResponse => responses' = responses
          /\ reply'.route = RouteDeleteResponse =>
               /\ \A r \in responses' : r.id # x
               /\ \A r \in responses : r.id # x => r \in responses'
               /\ responses' \subseteq responses]_vars

\* C18 witness: a DELETE removed one row and left the other one stored
C18_Witness ==
  /\ reply.route = RouteDeleteResponse
  /\ reply.code = 200
  /\ lastAuth.param = reply.id
  /\ responses # {}
  /\ \A r \in responses : r.id # reply.id

\* C19: no route lets a raw exception escape: every reply with an error
\* status code is a JSON body {error:{message}} with a non-empty message.
C19_ErrorsAreStructured ==
  reply.code >= 400 => reply.json /\ reply.error # ""

\* C23: a request that the middleware lets through because of a provisioned
\* API key (not the master key) reaches a handler only if the scopes of that
\* key include the scope of the endpoint: "responses" for the response
\* routes, "chat" for chat completions, a key-management scope for the
\* routes under /v1/api-keys.
C23_ScopesEnforced ==
  [][(lastAuth = NoAuth /\ lastAuth'.pass /\ lastAuth'.viaKey) =>
       LET scope ==
             IF pending' # pending
               THEN (CHOOSE p \in pending' \ pending : TRUE).kind
             ELSE IF reply'.route = RouteChat THEN "chat"
             ELSE IF reply'.route \in {RouteIssue, RouteListKeys, RouteGetKey,
                                       RouteRevoke, RouteDeleteKey}
               THEN "api-keys"
             ELSE "responses"
       IN scope \in lastAuth'.keyScopes]_vars

\* C24: while allowLocalWithoutAuth is true, a request without
\* x-forwarded-for reaches a protected route whatever its credentials; a
\* request with x-forwarded-for reaches it only with the master key or the
\* key of an active row; /health and /v1/models answer 200 to both.
C24_LocalFreeExternalGuarded ==
  /\ (reply.route = RouteListResponses /\ lastAuth.xff = "absent"
        /\ allowLocalWithoutAuth) => lastAuth.pass /\ reply.code = 200
  /\ (reply.route = RouteListResponses /\ lastAuth.xff = "present"
        /\ lastAuth.pass) =>
       \/ lastAuth.masterSet /\ lastAuth.isMaster
       \/ lastAuth.hashActive
  /\ reply.route \in {RouteHealth, RouteModels} => reply.code = 200

----------------------------------------------------------------------------
\* The Model Router as a state machine: getProvider applied to a model string

RouterAlphabet == {"c", "o", "-"}

\* every string over RouterAlphabet of length up to MaxModelLen
GeneratedModels ==
  UNION {[1..n -> RouterAlphabet] : n \in 0..MaxModelLen}

\* model ids of the registries, the aliases, and near misses of the prefix
\* test: '', 'claud', 'claude', 'claude-', 'Claude', 'xclaude', 'opus4',
\* 'sonnet', 'haiku', 'claude-haiku', 'o3', 'gpt-5'
NamedModels ==
  { <<>>,
    <<"c", "l", "a", "u", "d">>,
    ClaudeWord,
    ClaudeWord \o <<"-">>,
    <<"C", "l", "a", "u", "d", "e">>,
    <<"x">> \o ClaudeWord,
    OpusWord \o <<"4">>,
    OpusWord, SonnetWord, HaikuWord,
    ClaudeWord \o <<"-">> \o HaikuWord,
    ModelO3,
    <<"g", "p", "t", "-", "5">> }

\* the ids of both registries
RegistryIds == {e.id : e \in CLAUDE_MODELS} \cup {e.id : e \in CODEX_MODELS}

ModelStrings == GeneratedModels \cup NamedModels \cup RegistryIds

RouterInit ==
  /\ rtModel \in ModelStrings
  /\ rtProvider = "unset"
  /\ rtInfo = NoInfo
  /\ rtCall = NoRouterCall

\* const provider = getProvider(model)
CallGetProvider ==
  /\ rtProvider = "unset"
  /\ rtProvider' = getProvider(rtModel)
  /\ UNCHANGED <<rtModel, rtInfo, rtCall, nonRouter>>

\* const info = getModelInfo(model)
CallGetModelInfo ==
  /\ rtInfo = NoInfo
  /\ rtInfo' = getModelInfo(rtModel)
  /\ UNCHANGED <<rtModel, rtProvider, rtCall, nonRouter>>

\* what the managers produce: the text of a reply, '' included
ManagerTexts == {"", "hello", "4"}

\* the id spawnInteractive returns: `claude_${Date.now()}_...`, `codex_...`
processIdOf(mgr) == IF mgr = "claudeManager" THEN "claude_1" ELSE "codex_1"

\* a variant of the dispatch that ignores the provider
managerCall_codexOnly(entry, provider) ==
  [mgr |-> "codexManager",
   method |-> IF entry = "runWithHistoryStream" THEN "spawnInteractive"
              ELSE "runCommand"]

\* the branch on `provider === 'claude'` of the three entry points: the
\* method of the manager that is called
managerCall(entry, provider) ==
  IF provider = "claude"
    THEN [mgr |-> "claudeManager",
          method |-> IF entry = "runWithHistoryStream" THEN "spawnInteractive"
                     ELSE entry]
    ELSE [mgr |-> "codexManager",
          method |-> IF entry = "runWithHistoryStream" THEN "spawnInteractive"
                     ELSE "runCommand"]

\* the provider literal of the return statement that follows a manager call
providerLiteral(mgr) == IF mgr = "claudeManager" THEN "claude" ELSE "codex"

\* runPrompt(prompt, model, timeout) / runWithHistory(history, model, timeout)
\* up to their `await`
awaitManager(entry) ==
  /\ rtCall.pc = "idle"
  /\ rtProvider' = getProvider(rtModel)
  /\ rtCall' = [NoRouterCall EXCEPT
                  !.entry = entry, !.pc = "await",
                  !.invoked = {managerCall(entry, getProvider(rtModel))}]
  /\ UNCHANGED <<rtModel, rtInfo, nonRouter>>

runPrompt == awaitManager("runPrompt")

runWithHistory == awaitManager("runWithHistory")

\* runWithHistoryStream(history, model, onData, onEnd, onError): synchronous
runWithHistoryStream ==
  /\ rtCall.pc = "idle"
  /\ rtProvider' = getProvider(rtModel)
  /\ LET call == managerCall("runWithHistoryStream", getProvider(rtModel))
     IN rtCall' = [NoRouterCall EXCEPT
                     !.entry = "runWithHistoryStream", !.pc = "done",
                     !.invoked = {call}, !.settled = "returned",
                     !.processId = processIdOf(call.mgr),
                     !.provider = providerLiteral(call.mgr)]
  /\ UNCHANGED <<rtModel, rtInfo, nonRouter>>

\* the awaited manager promise resolves: `response.result` of the chat
\* manager or the string of the code-agent manager becomes `output`
ManagerResolves(text) ==
  /\ rtCall.pc = "await"
  /\ \E call \in rtCall.invoked :
       rtCall' = [rtCall EXCEPT
                    !.pc = "done", !.produced = "text", !.text = text,
                    !.settled = "resolved", !.output = text,
                    !.provider = providerLiteral(call.mgr)]
  /\ UNCHANGED <<rtModel, rtProvider, rtInfo, nonRouter>>

\* the awaited manager promise rejects: the async function rejects with it
ManagerRejects ==
  /\ rtCall.pc = "await"
  /\ rtCall' = [rtCall EXCEPT
                  !.pc = "done", !.produced = "rejection",
                  !.settled = "rejected"]
  /\ UNCHANGED <<rtModel, rtProvider, rtInfo, nonRouter>>

NextRouter ==
  \/ CallGetProvider
  \/ CallGetModelInfo
  \/ runPrompt
  \/ runWithHistory
  \/ runWithHistoryStream
  \/ \E text \in ManagerTexts : ManagerResolves(text)
  \/ ManagerRejects

InitRouter ==
  GatewayInit /\ RouterInit /\ RunnerIdle /\ TunnelInit /\ ManagersIdle

SpecRouter ==
  /\ InitRouter
  /\ [][NextRouter]_vars

C22_GetModelInfoTotal ==
  rtInfo # NoInfo =>
    LET m == rtModel
        isClaude == getProvider(m) = "claude"
        known == \E e \in (IF isClaude THEN CLAUDE_MODELS ELSE CODEX_MODELS) :
                   e.id = m
    IN /\ rtInfo.id = m
       /\ rtInfo.provider = getProvider(m)
       /\ (isClaude /\ known) =>
            \E e \in CLAUDE_MODELS :
              /\ e.id = m
              /\ rtInfo.cliModel = e.cliModel
              /\ rtInfo.displayName = e.displayName
       /\ (~isClaude /\ known) =>
            \E e \in CODEX_MODELS :
              /\ e.id = m
              /\ rtInfo.cliModel = m
              /\ rtInfo.displayName = e.displayName
       /\ (isClaude /\ ~known) => rtInfo.cliModel = SonnetWord
       /\ (~isClaude /\ ~known) =>
            \E e \in CODEX_MODELS : rtInfo.cliModel = e.id

\* C20: each router call runPrompt, runWithHistory or runWithHistoryStream
\* invokes exactly one manager, the one named by getProvider(model), and never
\* the other; what runPrompt and runWithHistory return is {output, provider}
\* with provider = getProvider(model) and output the text the manager
\* produced; when the manager rejects, the router call rejects.
C20_DispatchToNamedManager ==
  rtCall.entry # "none" =>
    /\ rtCall.entry \in {"runPrompt", "runWithHistory", "runWithHistoryStream"}
    /\ Cardinality(rtCall.invoked) = 1
    /\ \A call \in rtCall.invoked :
         /\ getProvider(rtModel) = "claude" => call.mgr = "claudeManager"
         /\ getProvider(rtModel) = "codex" => call.mgr = "codexManager"
    /\ rtCall.produced = "text" =>
         /\ rtCall.settled = "resolved"
         /\ rtCall.provider = getProvider(rtModel)
         /\ rtCall.output = rtCall.text
    /\ rtCall.produced = "rejection" => rtCall.settled = "rejected"
    /\ rtCall.settled = "resolved" => rtCall.produced = "text"
    /\ rtCall.settled = "returned" => rtCall.provider = getProvider(rtModel)

\* C20 witness: runWithHistory for a chat model returned the manager's text
C20_Witness ==
  /\ rtCall.entry = "runWithHistory"
  /\ rtCall.settled = "resolved"
  /\ rtCall.provider = "claude"
  /\ rtCall.output = "hello"
  /\ rtCall.invoked = {[mgr |-> "claudeManager", method |-> "runWithHistory"]}

----------------------------------------------------------------------------
\* The non-streaming runner: ClaudeManager.runPrompt (claude.ts:576-632) and
\* CodexManager.runCommand (codex.ts:491-562)

\* stdout chunks: pieces of text, in tokens: "{" and "}" are braces, "R" is a
\* member "result":"r", "E" a member "result":"", "C" a member "content":"c",
\* "n" the literal null, "1" a number, "t" a letter, " " a blank
StdoutChunks ==
  { <<"{", "R", "}">>, <<"{", "C", "}">>, <<"{", "}">>, <<"{", "R">>,
    <<"{", "E", "}">>, <<"}">>, <<"t">>, <<" ">>, <<"n">>, <<"1">> }
StderrChunks == { <<"e">> }

\* exit codes of a close event: 0, 1, and null (killed by a signal) as -1
ExitCodes == {0, 1, -1}

RECURSIVE Flatten(_)
Flatten(chunks) ==
  IF chunks = <<>> THEN <<>> ELSE Head(chunks) \o Flatten(Tail(chunks))

RECURSIVE TrimLeft(_)
TrimLeft(s) == IF s # <<>> /\ Head(s) = " " THEN TrimLeft(Tail(s)) ELSE s

RECURSIVE TrimRight(_)
TrimRight(s) ==
  IF s # <<>> /\ s[Len(s)] = " " THEN TrimRight(SubSeq(s, 1, Len(s) - 1)) ELSE s

\* String.prototype.trim()
Trim(s) == TrimRight(TrimLeft(s))

\* JSON.parse(text) succeeds on an object of "result"/"content" members
IsJsonObject(text) ==
  LET t == Trim(text)
  IN /\ Len(t) >= 2
     /\ t[1] = "{"
     /\ t[Len(t)] = "}"
     /\ \A k \in 2..(Len(t) - 1) : t[k] \in {"R", "C", "E"}

\* JSON.parse(text): "object", "number", "null", or "throws" (SyntaxError)
jsonParse(text) ==
  IF IsJsonObject(text) THEN "object"
  ELSE IF Trim(text) = <<"1">> THEN "number"
  ELSE IF Trim(text) = <<"n">> THEN "null"
  ELSE "throws"

\* parsed.result of an object: the last "result" member wins; '' is falsy
resultField(text) ==
  LET at == {k \in 1..Len(text) : text[k] \in {"R", "E"}}
  IN IF at = {} THEN <<>>
     ELSE IF text[CHOOSE k \in at : \A j \in at : j <= k] = "R" THEN <<"r">>
     ELSE <<>>

\* parsed.content of an object
contentField(text) ==
  IF \E k \in 1..Len(text) : text[k] = "C" THEN <<"c">> ELSE <<>>

\* a variant whose catch block returns the output as it is
claudeResult_untrimmed(text) ==
  IF jsonParse(text) = "object"
    THEN IF resultField(text) # <<>> THEN resultField(text)
         ELSE IF contentField(text) # <<>> THEN contentField(text)
         ELSE text
  ELSE text

\* the try block: parsed.result || parsed.content || output (reading a member
\* of null throws inside the try); the catch block: output.trim()
claudeResult(text) ==
  IF jsonParse(text) = "object"
    THEN IF resultField(text) # <<>> THEN resultField(text)
         ELSE IF contentField(text) # <<>> THEN contentField(text)
         ELSE text
  ELSE IF jsonParse(text) = "number" THEN text
  ELSE Trim(text)

\* errorOutput || `Exit code: ${code}`
exitMessage(code) ==
  IF Flatten(rnErr) # <<>> THEN Flatten(rnErr)
  ELSE IF code = 1 THEN <<"Exit code: 1">> ELSE <<"Exit code: null">>

\* resolve(value) / reject(error) of the promise: only the first call settles
Settle(state, value) ==
  /\ rnCalls' = rnCalls + 1
  /\ IF rnPromise = "pending"
       THEN rnPromise' = state /\ rnValue' = value
       ELSE UNCHANGED <<rnPromise, rnValue>>

\* history: the first decisive event
FirstEvent(e) == rnBy' = IF rnBy = "none" THEN e ELSE rnBy

\* a variant that records the child in activeProcesses
RunStart_tracked(mgr) ==
  /\ rnPromise = "none"
  /\ rnMgr' = mgr
  /\ rnChild' = "alive"
  /\ rnTimer' = "armed"
  /\ rnPromise' = "pending"
  /\ amActive' = [amActive EXCEPT ![mgr] = @ \cup {MaxProcs}]
  /\ UNCHANGED <<rnKilled, rnValue, rnOut, rnErr, rnCalls, rnBy, rnExit,
                 gwVars, rtVars, tnVars, amProcs, amRet, csVars,
                 lcVars, usVars>>

\* the call: spawn, setTimeout, and the handlers are registered
RunStart(mgr) ==
  /\ rnPromise = "none"
  /\ rnMgr' = mgr
  /\ rnChild' = "alive"
  /\ rnTimer' = "armed"
  /\ rnPromise' = "pending"
  /\ UNCHANGED <<rnKilled, rnValue, rnOut, rnErr, rnCalls, rnBy, rnExit, nonRunner>>

\* proc.stdout.on('data'): output += data.toString()
RunStdout(chunk) ==
  /\ rnChild = "alive"
  /\ Len(rnOut) + Len(rnErr) < MaxChunks
  /\ rnOut' = Append(rnOut, chunk)
  /\ UNCHANGED <<rnMgr, rnChild, rnKilled, rnTimer, rnPromise, rnValue, rnErr,
                 rnCalls, rnBy, rnExit, nonRunner>>

\* proc.stderr.on('data'): errorOutput += data.toString()
RunStderr(chunk) ==
  /\ rnChild = "alive"
  /\ Len(rnOut) + Len(rnErr) < MaxChunks
  /\ rnErr' = Append(rnErr, chunk)
  /\ UNCHANGED <<rnMgr, rnChild, rnKilled, rnTimer, rnPromise, rnValue, rnOut,
                 rnCalls, rnBy, rnExit, nonRunner>>

\* proc.on('close'): clearTimeout(timer); resolve on code 0, reject otherwise.
\* A child that failed to spawn closes with a non-zero code, if it closes.
RunClose(code) ==
  /\ rnChild \in {"alive", "failed"}
  /\ rnChild = "failed" => code # 0
  /\ rnChild' = "closed"
  /\ rnExit' = code
  /\ rnTimer' = IF rnTimer = "armed" THEN "cleared" ELSE rnTimer
  /\ FirstEvent("close")
  /\ IF code = 0
       THEN Settle("resolved",
                   IF rnMgr = "claude" THEN claudeResult(Flatten(rnOut))
                   ELSE Flatten(rnOut))
       ELSE Settle("rejected", exitMessage(code))
  /\ UNCHANGED <<rnMgr, rnKilled, rnOut, rnErr, nonRunner>>

\* proc.on('error'), the spawn failed: clearTimeout(timer); reject(err)
RunError ==
  /\ rnChild = "alive"
  /\ rnOut = <<>> /\ rnErr = <<>>
  /\ ~rnKilled
  /\ rnChild' = "failed"
  /\ rnTimer' = IF rnTimer = "armed" THEN "cleared" ELSE rnTimer
  /\ FirstEvent("error")
  /\ Settle("rejected", <<"spawn error">>)
  /\ UNCHANGED <<rnMgr, rnKilled, rnOut, rnErr, rnExit, nonRunner>>

\* mutant: the timer callback kills the child and forgets to reject
RunTimeout_noReject ==
  /\ rnTimer = "armed"
  /\ rnTimer' = "fired"
  /\ rnKilled' = TRUE
  /\ FirstEvent("timeout")
  /\ UNCHANGED <<rnMgr, rnChild, rnPromise, rnValue, rnOut, rnErr, rnCalls,
                 rnExit, nonRunner>>

\* the timer callback: proc.kill(); reject(new Error('Command timeout'))
RunTimeout ==
  /\ rnTimer = "armed"
  /\ rnTimer' = "fired"
  /\ rnKilled' = TRUE
  /\ FirstEvent("timeout")
  /\ Settle("rejected", <<"Command timeout">>)
  /\ UNCHANGED <<rnMgr, rnChild, rnOut, rnErr, rnExit, nonRunner>>

NextRun ==
  \/ \E mgr \in {"claude", "codex"} : RunStart(mgr)
  \/ \E c \in StdoutChunks : RunStdout(c)
  \/ \E c \in StderrChunks : RunStderr(c)
  \/ \E code \in ExitCodes : RunClose(code)
  \/ RunError
  \/ RunTimeout

InitRun ==
  GatewayInit /\ RouterIdle /\ RunnerIdle /\ TunnelInit /\ ManagersIdle

\* an armed setTimeout timer fires unless it is cleared
SpecRun ==
  /\ InitRun
  /\ [][NextRun]_vars
  /\ WF_vars(RunTimeout)

\* C9, state part: the promise is pending only while nothing decisive has
\* happened and the timer is armed; it is resolved only by a close with exit
\* code 0; a close with another code or a spawn error rejects it; the timeout
\* kills the child and rejects with the timeout error; nothing else kills.
C9_Outcome ==
  /\ rnPromise = "pending" => (rnTimer = "armed" /\ rnBy = "none")
  /\ rnPromise = "resolved" <=> (rnBy = "close" /\ rnExit = 0)
  /\ (rnBy = "error" \/ (rnBy = "close" /\ rnExit # 0)) =>
       (rnPromise = "rejected" /\ ~rnKilled)
  /\ rnBy = "timeout" <=> rnKilled
  /\ rnBy = "timeout" =>
       (rnPromise = "rejected" /\ rnValue = <<"Command timeout">>)

\* C9, step part: once the first decisive event has happened, a later close,
\* error or timeout changes neither the state nor the value of the promise
C9_SettledOnce ==
  rnBy # "none" => (rnPromise' = rnPromise /\ rnValue' = rnValue)

\* C9: every non-streaming invocation settles exactly once and never hangs.
C9_SettlesOnceNeverHangs ==
  /\ []C9_Outcome
  /\ [][C9_SettledOnce]_vars
  /\ (rnPromise = "pending") ~> (rnPromise \in {"resolved", "rejected"})

\* C9 witness: the timeout rejected, and the close that followed the kill
\* made a second, ineffective reject call
C9_Witness ==
  /\ rnBy = "timeout"
  /\ rnChild = "closed"
  /\ rnCalls = 2
  /\ rnPromise = "rejected"
  /\ rnValue = <<"Command timeout">>

\* C21: when the chat agent's child closes with code 0, runPrompt resolves
\* whatever the output is: an output that parses to an object gives its
\* non-empty result member, else its non-empty content member, else the raw
\* output; a parsed value without members (a number) gives the raw output;
\* an output on which the try block throws gives the raw output trimmed.
C21_ExitZeroAlwaysResolves ==
  (rnMgr = "claude" /\ rnBy = "close" /\ rnExit = 0) =>
    LET out == Flatten(rnOut)
        t == Trim(out)
        isObject ==
          /\ Len(t) >= 2 /\ t[1] = "{" /\ t[Len(t)] = "}"
          /\ \A k \in 2..(Len(t) - 1) : t[k] \in {"R", "C", "E"}
        members == IF isObject THEN SubSeq(t, 2, Len(t) - 1) ELSE <<>>
        hasResult ==
          /\ members # <<>>
          /\ \E k \in 1..Len(members) :
               /\ members[k] = "R"
               /\ \A j \in (k + 1)..Len(members) : members[j] # "E"
        hasContent == \E k \in 1..Len(members) : members[k] = "C"
    IN /\ rnPromise = "resolved"
       /\ rnValue = IF hasResult THEN <<"r">>
                    ELSE IF hasContent THEN <<"c">>
                    ELSE IF isObject \/ t = <<"1">> THEN out
                    ELSE t

\* C21 witness: an output that is not JSON and ends with a blank was returned
\* trimmed
C21_Witness ==
  /\ rnMgr = "claude" /\ rnBy = "close" /\ rnExit = 0
  /\ rnPromise = "resolved"
  /\ rnOut = << <<"t">>, <<" ">> >>
  /\ rnValue = <<"t">>

----------------------------------------------------------------------------
\* The Tunnel Manager as a state machine (tunnel.ts:428-527).  Output text is
\* a sequence of tokens: "H" stands for "https://", "T" for
\* ".trycloudflare.com", "a" and "b" for characters of [a-z0-9-], "x" for
\* any other character.

SubChars == {"a", "b"}
UrlA == <<"H", "a", "T">>
UrlB == <<"H", "b", "T">>

\* "M" stands for the relay's line "Registered tunnel connection"
MarkerLine == <<"M">>

\* tunnelCustomUrl, "https://api.example.com": "E" stands for ".example.com"
CustomUrl == <<"H", "a", "E">>

\* the data events a relay child can deliver: a line holding a URL, a line
\* holding none, and a URL cut in two by the pipe
OutputChunks == {UrlA, UrlB, <<"x">>, <<"H", "a">>, <<"T">>, MarkerLine}

\* exit codes of the close event
CloseCodes == {0, 1}

\* Date.now() at the moment the URL is seen
StartTime == 1

\* text.match(/https:\/\/[a-z0-9-]+\.trycloudflare\.com/i): the leftmost
\* match, NoUrl when there is none
urlMatch(text) ==
  LET ends(i) == {j \in (i + 2)..Len(text) :
                    /\ text[j] = "T"
                    /\ \A k \in (i + 1)..(j - 1) : text[k] \in SubChars}
      starts == {i \in 1..Len(text) : text[i] = "H" /\ ends(i) # {}}
  IN IF starts = {} THEN NoUrl
     ELSE LET i == CHOOSE m \in starts : \A n \in starts : m <= n
              j == CHOOSE m \in ends(i) : TRUE
          IN SubSeq(text, i, j)

\* history: the unfinished URL at the end of a child's output, "https://"
\* followed by subdomain characters only; <<>> when the output ends otherwise
urlPrefixTail(text) ==
  LET starts == {i \in 1..Len(text) :
                   /\ text[i] = "H"
                   /\ \A k \in (i + 1)..Len(text) : text[k] \in SubChars}
  IN IF starts = {} THEN <<>>
     ELSE SubSeq(text, CHOOSE i \in starts : TRUE, Len(text))

\* getStatus() over given field values
statusOf(process, url, startedAt, error) ==
  [active |-> (process # 0 /\ url # NoUrl), url |-> url,
   startedAt |-> startedAt, error |-> error]

getStatus == statusOf(tnProcess, tnUrl, tnStartedAt, tnError)

isActive == tnProcess # 0 /\ tnUrl # NoUrl

getUrl == tnUrl

\* if (!resolved) { resolved = true; resolve(status) }; `by` records which
\* path of start() settled the call
resolveOnce(c, status, by) ==
  IF c.resolved THEN c
  ELSE [c EXCEPT !.resolved = TRUE, !.result = status, !.pc = "done",
                 !.by = by]

\* the first start() call that was not made yet
FreshCall(i) ==
  /\ tnCalls[i].pc = "unused"
  /\ \A j \in 1..(i - 1) : tnCalls[j].pc # "unused"

\* a variant of the guard that tests isActive() instead of the child reference
alreadyRunning_whenActive == tnProcess # 0 /\ tnUrl # NoUrl

\* if (this.process)
alreadyRunning == tnProcess # 0

\* start(), up to its first await
TunnelStart(i) ==
  /\ FreshCall(i)
  /\ IF alreadyRunning
       THEN /\ tnCalls' = [tnCalls EXCEPT ![i] =
                             resolveOnce(@, getStatus, "running")]
            /\ UNCHANGED <<tnProcess, tnUrl, tnStartedAt, tnError>>
       ELSE /\ tnError' = ""
            /\ tnUrl' = NoUrl
            /\ tnCalls' = [tnCalls EXCEPT ![i].pc = "probe"]
            /\ UNCHANGED <<tnProcess, tnStartedAt>>
  /\ tnStopAgain' = FALSE
  /\ UNCHANGED tnToken
  /\ UNCHANGED nonTunnel

\* new Promise(...): spawn, register the handlers, track the child, arm the
\* 30 s timer
spawnedCall(c) ==
  [c EXCEPT !.pc = "spawned", !.child = "alive", !.timer = "armed"]

\* proc.on('error'): the spawn failed; the event is emitted on the next tick,
\* before any other event can be handled
procError(i) ==
  /\ tnError' = "Failed to start cloudflared"
  /\ tnProcess' = 0
  /\ tnCalls' = [tnCalls EXCEPT ![i] =
                   resolveOnce([spawnedCall(@) EXCEPT !.child = "failed"],
                               statusOf(0, tnUrl, tnStartedAt, tnError'),
                               "error")]
  /\ UNCHANGED <<tnUrl, tnStartedAt>>

spawnChild(i, spawns) ==
  IF spawns
    THEN /\ tnProcess' = i
         /\ tnCalls' = [tnCalls EXCEPT ![i] = spawnedCall(@)]
         /\ UNCHANGED <<tnUrl, tnStartedAt, tnError>>
    ELSE procError(i)

\* isCloudflaredInstalled() settles
IsInstalledDone(i, installed, spawns) ==
  /\ tnCalls[i].pc = "probe"
  /\ IF installed
       THEN spawnChild(i, spawns)
       ELSE /\ tnCalls' = [tnCalls EXCEPT ![i].pc = "download"]
            /\ UNCHANGED <<tnProcess, tnUrl, tnStartedAt, tnError>>
  /\ tnStopAgain' = FALSE
  /\ UNCHANGED tnToken
  /\ UNCHANGED nonTunnel

\* downloadCloudflared() settles
DownloadDone(i, success, spawns) ==
  /\ tnCalls[i].pc = "download"
  /\ IF success
       THEN spawnChild(i, spawns)
       ELSE /\ tnError' = "cloudflared not found and download failed"
            /\ tnCalls' = [tnCalls EXCEPT ![i] =
                             resolveOnce(@, statusOf(tnProcess, tnUrl,
                                              tnStartedAt, tnError'),
                                         "download")]
            /\ UNCHANGED <<tnProcess, tnUrl, tnStartedAt>>
  /\ tnStopAgain' = FALSE
  /\ UNCHANGED tnToken
  /\ UNCHANGED nonTunnel

\* handleOutput: one data event of the child of call i, on stdout or stderr
handleOutput(i, data) ==
  LET c == tnCalls[i]
      urlMatched == urlMatch(data)
      hit == urlMatched # NoUrl /\ tnUrl = NoUrl
      \* history: the first URL a data event of this child held while the
      \* startup timer was armed
      c1 == [c EXCEPT !.nData = @ + 1,
               !.cut = urlPrefixTail(@ \o data),
               !.wrote = IF @ = NoUrl /\ c.timer = "armed"
                           THEN urlMatched ELSE @,
               !.marker = @ \/ (data = MarkerLine /\ c.timer = "armed")]
  IN /\ c.child = "alive"
     /\ c.nData < MaxChunks
     /\ tnUrl' = IF hit THEN urlMatched ELSE tnUrl
     /\ tnStartedAt' = IF hit THEN StartTime ELSE tnStartedAt
     /\ tnCalls' = [tnCalls EXCEPT ![i] =
                      IF hit
                        THEN resolveOnce(c1, statusOf(tnProcess, tnUrl',
                                                tnStartedAt', tnError),
                                         "url")
                        ELSE c1]
     /\ UNCHANGED <<tnProcess, tnError>>
     /\ tnStopAgain' = FALSE
     /\ UNCHANGED tnToken
     /\ UNCHANGED nonTunnel

\* proc.on('close'): the child of call i is gone; a failed spawn closes with
\* a non-zero code
ProcClose(i, code) ==
  LET c == tnCalls[i]
      fails == code # 0 /\ ~c.resolved
      c1 == [c EXCEPT !.child = "closed"]
  IN /\ c.child \in {"alive", "failed"}
     /\ c.child = "failed" => code # 0
     /\ tnProcess' = 0
     /\ tnUrl' = NoUrl
     /\ tnStartedAt' = NullTime
     /\ tnError' = IF fails THEN "cloudflared exited with code 1" ELSE tnError
     /\ tnCalls' = [tnCalls EXCEPT ![i] =
                      IF fails
                        THEN resolveOnce(c1, statusOf(0, NoUrl, NullTime,
                                                tnError'), "exit")
                        ELSE c1]
     /\ tnStopAgain' = FALSE
     /\ UNCHANGED tnToken
     /\ UNCHANGED nonTunnel

\* the 30 s timer of call i fires; nothing ever clears it
StartTimeout(i) ==
  LET c == tnCalls[i]
      c1 == [c EXCEPT !.timer = "fired"]
      gaveUp == ~c.resolved /\ tnUrl = NoUrl
      calls1 == [tnCalls EXCEPT ![i] = c1]
      calls2 == IF gaveUp THEN markStop(killTracked(calls1)) ELSE calls1
  IN /\ c.timer = "armed"
     /\ tnError' = IF gaveUp THEN "Tunnel start timeout (30s)" ELSE tnError
     /\ tnProcess' = IF gaveUp THEN 0 ELSE tnProcess
     /\ tnStartedAt' = IF gaveUp THEN NullTime ELSE tnStartedAt
     /\ tnUrl' = tnUrl
     /\ tnCalls' = [calls2 EXCEPT ![i] =
                      resolveOnce(@, statusOf(tnProcess', tnUrl',
                                       tnStartedAt', tnError'),
                                  IF gaveUp THEN "timeout" ELSE "late")]
     /\ tnStopAgain' = FALSE
     /\ UNCHANGED tnToken
     /\ UNCHANGED nonTunnel

\* stop()
TunnelStop ==
  /\ stop
  /\ tnStopAgain' = (tnProcess = 0 /\ tnUrl = NoUrl /\ tnStartedAt = NullTime)
  /\ UNCHANGED tnToken
  /\ UNCHANGED nonTunnel

StartCalls == 1..MaxStarts

NextTunnel ==
  \/ \E i \in StartCalls : TunnelStart(i)
  \/ \E i \in StartCalls, installed, spawns \in BOOLEAN :
       IsInstalledDone(i, installed, spawns)
  \/ \E i \in StartCalls, success, spawns \in BOOLEAN :
       DownloadDone(i, success, spawns)
  \/ \E i \in StartCalls, data \in OutputChunks : handleOutput(i, data)
  \/ \E i \in StartCalls, code \in CloseCodes : ProcClose(i, code)
  \/ \E i \in StartCalls : StartTimeout(i)
  \/ TunnelStop

\* the configuration may or may not store a tunnel token and custom URL
InitTunnel ==
  /\ GatewayInit /\ RouterIdle /\ RunnerIdle /\ ManagersIdle
  /\ TunnelFields /\ tnToken \in BOOLEAN

SpecTunnel ==
  /\ InitTunnel
  /\ [][NextTunnel]_vars

\* C10: when, in quick mode (no tunnel token stored), the relay child of a start() call has delivered
\* a data event containing a URL of the relay's public domain before the
\* startup timer fired, that call has resolved with active = true, the first such
\* URL, a non-null startedAt and a null error, and getStatus() reports that
\* URL as long as the child has not closed and stop() has not been called.
C10_QuickStartReportsUrl ==
  \A i \in StartCalls :
    LET c == tnCalls[i]
    IN (~tnToken /\ c.wrote # NoUrl) =>
         /\ c.resolved
         /\ c.result.active
         /\ c.result.url = c.wrote
         /\ c.result.startedAt # NullTime
         /\ c.result.error = ""
         /\ (c.child = "alive" /\ ~c.stopSeen) => getStatus.url = c.wrote

\* C11: a start() call made while a relay child is tracked is a no-op: it
\* spawns no child, leaves the tracked child, url, startedAt and error as
\* they are, touches no other call, and returns the current status.
C11_StartWhileTrackedIsNoOp ==
  [][\A i \in StartCalls :
       (tnProcess # 0 /\ tnCalls[i].pc = "unused"
          /\ tnCalls'[i].pc # "unused") =>
         /\ <<tnProcess, tnUrl, tnStartedAt, tnError>>' =
              <<tnProcess, tnUrl, tnStartedAt, tnError>>
         /\ tnCalls'[i] = [NoCall EXCEPT !.pc = "done", !.resolved = TRUE,
                             !.result = getStatus, !.by = "running"]
         /\ \A j \in StartCalls \ {i} : tnCalls'[j] = tnCalls[j]]_vars

\* C11 witness: a start() call returned the status of the running tunnel
\* without spawning a child, while the first call's child is still tracked
C11_Witness ==
  \E i \in StartCalls :
    /\ tnCalls[i].pc = "done"
    /\ tnCalls[i].child = "none"
    /\ tnCalls[i].result.active
    /\ tnProcess # 0
    /\ tnProcess # i

\* the state stop() leaves: no tracked child, no url, no start time
Stopped == tnProcess = 0 /\ tnUrl = NoUrl /\ tnStartedAt = NullTime

\* C12: stop() is idempotent: every stop() leaves the status at active =
\* false and url = null, and a stop() of the already stopped Tunnel Manager
\* sends no signal and changes no field, so the status is the same again.
C12_StopIdempotent ==
  [][TunnelStop =>
       /\ ~getStatus'.active
       /\ getStatus'.url = NoUrl
       /\ Stopped'
       /\ Stopped =>
            /\ <<tnProcess, tnUrl, tnStartedAt, tnError>>' =
                 <<tnProcess, tnUrl, tnStartedAt, tnError>>
            /\ getStatus' = getStatus
            /\ \A i \in StartCalls :
                 tnCalls'[i].signalled = tnCalls[i].signalled]_vars

\* C12 witness: stop() was called on the stopped manager after an earlier
\* stop() had signalled a child, and a start error is still reported
C12_Witness ==
  /\ tnStopAgain
  /\ Stopped
  /\ tnError # ""
  /\ \E i \in StartCalls : tnCalls[i].signalled

\* the 30 s timer of a start() call is never cleared, so it fires
SpecTunnelFair ==
  /\ InitTunnel
  /\ [][NextTunnel]_vars
  /\ \A i \in StartCalls : WF_vars(StartTimeout(i))

TimeoutError == "Tunnel start timeout (30s)"

\* the startup timer of call i fires in this step
TimerFires(i) == tnCalls[i].timer = "armed" /\ tnCalls'[i].timer = "fired"

\* C13, step part: when the timer of a start() call fires while the call is
\* unresolved and no URL is detected, the child of the call is killed (it
\* was sent a signal or is gone), no child is tracked afterwards, and the
\* call resolves with active = false, url = null and the timeout error; when
\* the call had resolved with a URL, the timer changes no field.
C13_TimerStep ==
  \A i \in StartCalls :
    TimerFires(i) =>
      /\ (~tnCalls[i].resolved /\ tnUrl = NoUrl) =>
           /\ tnCalls'[i].signalled \/ tnCalls'[i].child \in {"closed", "failed"}
           /\ tnProcess' = 0
           /\ tnCalls'[i].resolved
           /\ tnCalls'[i].result =
                [active |-> FALSE, url |-> NoUrl, startedAt |-> NullTime,
                 error |-> TimeoutError]
      /\ (tnCalls[i].resolved /\ tnCalls[i].result.url # NoUrl) =>
           /\ <<tnProcess, tnUrl, tnStartedAt, tnError>>' =
                <<tnProcess, tnUrl, tnStartedAt, tnError>>
           /\ tnCalls'[i].result = tnCalls[i].result

\* C13: every start() call that spawned a child eventually resolves, and the
\* timer behaves as C13_TimerStep says.
C13_StartResolvesOrTimesOut ==
  /\ [][C13_TimerStep]_vars
  /\ \A i \in StartCalls :
       (tnCalls[i].child # "none") ~> tnCalls[i].resolved

\* C14: after stop() on a running tunnel the cached state is cleared and the
\* relay child is eventually dead, also when it ignores the graceful signal
\* (stop() force-kills it after the grace period).
C14_StopKillsEventually ==
  /\ [][TunnelStop => Stopped']_vars
  /\ \A i \in StartCalls :
       [](tnCalls[i].signalled => <>(tnCalls[i].child = "closed"))

\* C15: with a tunnel token and custom URL stored, start() runs in token
\* mode: a call resolves active only with the configured custom URL and only
\* after the child's "connection registered" line, and once that line has
\* appeared before the startup timer fired the call has resolved with
\* active = true and url = the custom URL.
C15_TokenModeUsesConfiguredUrl ==
  tnToken =>
    \A i \in StartCalls :
      LET c == tnCalls[i]
      IN /\ (c.resolved /\ c.child # "none" /\ c.result.active) =>
              (c.marker /\ c.result.url = CustomUrl)
         /\ c.marker =>
              (c.resolved /\ c.result.active /\ c.result.url = CustomUrl)

\* POST /admin/tunnel/start: res.json(status) once start() has resolved
\* (server.ts:454-462); start() has no rejecting path, so the catch is dead
startRouteReply(c) ==
  IF c.resolved THEN [code |-> 200, body |-> c.result]
  ELSE [code |-> 0, body |-> NoStatus]

\* the ways start() fails
FailedBy == {"download", "error", "exit", "timeout"}

\* C16: every failing start() (download failed, spawn error, non-zero exit
\* before a URL, startup timeout) has resolved with a status whose active is
\* false and whose error is a non-null string, and the route POST
\* /admin/tunnel/start answers 200 with that status.
C16_StartFailureIsAStatus ==
  \A i \in StartCalls :
    LET c == tnCalls[i]
    IN c.by \in FailedBy =>
         /\ c.resolved
         /\ ~c.result.active
         /\ c.result.error \notin {"", "unset"}
         /\ startRouteReply(c) = [code |-> 200, body |-> c.result]

\* C25: at most one relay child spawned by the Tunnel Manager is alive at any
\* time, whatever the interleaving of start(), stop() and child events.
C25_AtMostOneChildAlive ==
  Cardinality({i \in StartCalls : tnCalls[i].child = "alive"}) <= 1

\* C26: when the tracked relay child exits with a non-zero code, while the
\* tunnel is Starting or after it became Active, the manager is in Error:
\* getStatus() reports active = false and a non-null error.
C26_AbnormalExitIsError ==
  [][\A i \in StartCalls :
       (ProcClose(i, 1) /\ tnProcess = i /\ ~tnCalls[i].stopSeen) =>
         /\ ~getStatus'.active
         /\ getStatus'.error # ""]_vars

\* C27: in quick mode the URL is found in the child's combined output however
\* it is split into data events: when a data event of the tracked child
\* completes a URL, within the event or together with the end of the output
\* before it, while start() is unresolved and no URL is set, start() resolves
\* active with that URL.
C27_UrlFoundAcrossDataEvents ==
  [][\A i \in StartCalls :
       \A data \in OutputChunks :
         LET c == tnCalls[i]
             url == urlMatch(c.cut \o data)
         IN (/\ handleOutput(i, data)
             /\ ~tnToken /\ tnProcess = i /\ tnUrl = NoUrl
             /\ ~c.resolved /\ ~c.stopSeen
             /\ url # NoUrl) =>
              /\ tnCalls'[i].resolved
              /\ tnCalls'[i].result.active
              /\ tnCalls'[i].result.url = url
              /\ getStatus'.url = url]_vars

----------------------------------------------------------------------------
\* The streaming path of the Agent Managers as a state machine

\* the id of the next call: `proc_${Date.now()}_...`, `claude_${Date.now()}_...`
FreshProc(id) ==
  /\ amProcs[id].mgr = "none"
  /\ \A j \in 1..(id - 1) : amProcs[j].mgr # "none"

\* spawnInteractive(prompt, model, onData, onEnd, onError): `found` is what the
\* pre-check of the code-agent manager finds; the chat manager has none
SpawnInteractive(mgr, id, found) ==
  /\ FreshProc(id)
  /\ mgr = "claude" => found
  /\ IF found
       THEN /\ amProcs' = [amProcs EXCEPT ![id] =
                            [NoProc EXCEPT !.mgr = mgr, !.child = "alive",
                                           !.spawned = TRUE]]
            /\ amActive' = [amActive EXCEPT ![mgr] = @ \cup {id}]
       ELSE /\ amProcs' = [amProcs EXCEPT ![id] =
                            [NoProc EXCEPT !.mgr = mgr,
                                           !.callback = "onError",
                                           !.terminals = <<"onError">>]]
            /\ UNCHANGED amActive
  /\ amRet' = [op |-> "spawnInteractive", mgr |-> mgr, id |-> id, value |-> 0]
  /\ UNCHANGED nonManagers

\* `if (code === 0) onEnd(output) else onError(...)`
terminalOf(code) == IF code = 0 THEN "onEnd" ELSE "onError"

\* proc.on('close'): the entry is deleted; onEnd on code 0, onError otherwise
StreamClose(id, code) ==
  LET c == amProcs[id]
  IN /\ c.child \in {"alive", "failed"}
     /\ c.child = "failed" => code # 0
     /\ amProcs' = [amProcs EXCEPT ![id] =
                      [c EXCEPT !.child = "closed", !.ended = TRUE,
                                !.exit = code,
                                !.callback = terminalOf(code),
                                !.terminals = Append(@, terminalOf(code))]]
     /\ amActive' = [amActive EXCEPT ![c.mgr] = @ \ {id}]
     /\ UNCHANGED <<amRet, nonManagers>>

\* proc.on('error'), the spawn failed: the entry is deleted; onError
StreamError(id) ==
  LET c == amProcs[id]
  IN /\ c.child = "alive"
     /\ ~c.signalled
     /\ amProcs' = [amProcs EXCEPT ![id] =
                      [c EXCEPT !.child = "failed", !.ended = TRUE,
                                !.callback = "onError",
                                !.terminals = Append(@, "onError")]]
     /\ amActive' = [amActive EXCEPT ![c.mgr] = @ \ {id}]
     /\ UNCHANGED <<amRet, nonManagers>>

KillProcess(mgr, id) ==
  /\ killProcess(mgr, id)
  /\ UNCHANGED nonManagers

KillAllProcesses(mgr) ==
  /\ killAllProcesses(mgr)
  /\ amRet' = [op |-> "killAllProcesses", mgr |-> mgr, id |-> 0,
               value |-> Cardinality(amActive[mgr])]
  /\ UNCHANGED nonManagers

GetActiveCount(mgr) ==
  /\ amRet' = [op |-> "getActiveCount", mgr |-> mgr, id |-> 0,
               value |-> getActiveCount(mgr)]
  /\ UNCHANGED <<amProcs, amActive, nonManagers>>

NextStream ==
  \/ \E m \in Managers, id \in ProcIds, f \in BOOLEAN : SpawnInteractive(m, id, f)
  \/ \E id \in ProcIds, code \in CloseCodes : StreamClose(id, code)
  \/ \E id \in ProcIds : StreamError(id)
  \/ \E m \in Managers, id \in ProcIds : KillProcess(m, id)
  \/ \E m \in Managers : KillAllProcesses(m)
  \/ \E m \in Managers : GetActiveCount(m)

InitStream ==
  GatewayInit /\ RouterIdle /\ RunnerIdle /\ TunnelInit /\ ManagersIdle

SpecStream == InitStream /\ [][NextStream]_vars

\* the ids the claim's invariant counts for a manager: returned by its
\* spawnInteractive after a spawn, with no close, error or kill since
LiveIds(mgr) ==
  {id \in ProcIds : /\ amProcs[id].mgr = mgr
                    /\ amProcs[id].spawned
                    /\ ~amProcs[id].ended
                    /\ ~amProcs[id].killed}

\* C28, state part: the keys of activeProcesses are exactly the live ids
C28_TrackedExactlyLive ==
  \A m \in Managers : amActive[m] = LiveIds(m)

\* C28, step part: what killProcess, killAllProcesses and getActiveCount
\* return and change
C28_KillSteps ==
  /\ \A m \in Managers, id \in ProcIds :
       KillProcess(m, id) =>
         IF id \in amActive[m]
           THEN /\ amRet'.value = 1
                /\ amActive'[m] = amActive[m] \ {id}
                /\ amProcs'[id].signalled
           ELSE /\ amRet'.value = 0
                /\ <<amProcs, amActive>>' = <<amProcs, amActive>>
  /\ \A m \in Managers :
       KillAllProcesses(m) =>
         /\ amRet'.value = Cardinality(LiveIds(m))
         /\ amActive'[m] = {}
         /\ \A id \in LiveIds(m) : amProcs'[id].signalled
  /\ \A m \in Managers :
       GetActiveCount(m) => amRet'.value = Cardinality(LiveIds(m))

\* C28: tracked-children invariant of each Agent Manager: an id is a key of
\* activeProcesses exactly when spawnInteractive returned it after spawning
\* a child and no close event, error event, killProcess(id) or
\* killAllProcesses() happened for it since; getActiveCount() is the number
\* of such ids; killProcess(id) returns true and removes the entry of a
\* tracked id, returns false and changes nothing otherwise;
\* killAllProcesses() returns the number of tracked entries and leaves none.
C28_TrackedChildren ==
  /\ []C28_TrackedExactlyLive
  /\ [][C28_KillSteps]_vars

\* C28 witness: killProcess returned true for one of two tracked children of
\* the code-agent manager and left the other one tracked
C28_Witness ==
  /\ amRet.op = "killProcess" /\ amRet.mgr = "codex" /\ amRet.value = 1
  /\ amProcs[amRet.id].killed
  /\ Cardinality(amActive["codex"]) = 1
  /\ amRet.id \notin amActive["codex"]

----------------------------------------------------------------------------
\* A non-streaming call next to the cancellation primitives and stopServer

NextKill ==
  \/ StartServer(MSK, TRUE)
  \/ StopServer
  \/ \E mgr \in Managers : RunStart(mgr)
  \/ RunStdout(<<"t">>)
  \/ \E code \in ExitCodes : RunClose(code)
  \/ RunError
  \/ RunTimeout
  \/ \E m \in Managers : SpawnInteractive(m, 1, TRUE)
  \/ \E m \in Managers, id \in ProcIds : KillProcess(m, id)
  \/ \E m \in Managers : KillAllProcesses(m)

InitKill ==
  GatewayInit /\ RouterIdle /\ RunnerIdle /\ TunnelInit /\ ManagersIdle

SpecKill == InitKill /\ [][NextKill]_vars

\* C29: the child of runCommand/runPrompt is never tracked: a step of the
\* non-streaming call leaves activeProcesses as it is; killProcess,
\* killAllProcesses and stopServer leave the call and its child as they are;
\* the child is signalled only by the call's own timer, and stops being
\* alive only by a close or an error event.
C29_NonStreamingUntracked ==
  [][/\ rnVars' # rnVars => <<amProcs, amActive>>' = <<amProcs, amActive>>
     /\ (amVars' # amVars \/ server' # server) => rnVars' = rnVars
     /\ (rnKilled' /\ ~rnKilled) => (rnTimer = "armed" /\ rnTimer' = "fired")
     /\ (rnChild = "alive" /\ rnChild' # "alive") =>
          /\ rnChild' \in {"closed", "failed"}
          /\ rnBy' \in {"close", "error", "timeout"}]_vars

\* C29 witness: stopServer signalled the tracked streaming child while the
\* non-streaming child runs on, unsignalled, its call pending
C29_Witness ==
  /\ amProcs[1].killed
  /\ amRet.op = "spawnInteractive"
  /\ ~server
  /\ rnChild = "alive"
  /\ ~rnKilled
  /\ rnPromise = "pending"

----------------------------------------------------------------------------
\* The status cache of the chat Agent Manager as a state machine
\* (claude.ts:46-58, 464-503)

StatusCalls == 1..MaxStatusCalls

\* what the probes isInstalled(), getVersion() and checkAuth() can find
ProbedStatuses ==
  { [installed |-> "false", version |-> "null"],
    [installed |-> "true", version |-> "1.0.0"],
    [installed |-> "true", version |-> "1.0.1"] }

FreshStatusCall(i) ==
  /\ csCalls[i].pc = "unused"
  /\ \A j \in 1..(i - 1) : csCalls[j].pc # "unused"

\* !forceRefresh && this.cachedStatus && (now - this.cacheTime) < this.CACHE_TTL
cacheValid(forceRefresh, nowMs) ==
  /\ ~forceRefresh
  /\ csCached # NoCachedStatus
  /\ (nowMs - csCacheTime) < CACHE_TTL

\* getStatus(forceRefresh), up to its first await: `now` is read here
GetStatusCall(i, forceRefresh) ==
  /\ FreshStatusCall(i)
  /\ csCalls' = [csCalls EXCEPT ![i] =
       IF cacheValid(forceRefresh, csClock)
         THEN [pc |-> "done", now |-> csClock, force |-> forceRefresh,
               hit |-> TRUE, result |-> csCached]
         ELSE [pc |-> "probing", now |-> csClock, force |-> forceRefresh,
               hit |-> FALSE, result |-> NoCachedStatus]]
  /\ UNCHANGED <<csCached, csCacheTime, csClock, csCachedAt, nonCache>>

\* the probes of call i have settled: the status is cached under the `now`
\* of the call and returned
ProbesDone(i, status) ==
  /\ csCalls[i].pc = "probing"
  /\ csCached' = status
  /\ csCacheTime' = csCalls[i].now
  /\ csCachedAt' = csClock
  /\ csCalls' = [csCalls EXCEPT ![i].pc = "done", ![i].result = status]
  /\ UNCHANGED <<csClock, nonCache>>

\* clearCache()
ClearCache ==
  /\ csCached' = NoCachedStatus
  /\ csCacheTime' = 0
  /\ csCachedAt' = 0
  /\ UNCHANGED <<csClock, csCalls, nonCache>>

\* ten seconds pass
ClockTick ==
  /\ csClock < ClockStart + MaxTicks
  /\ csClock' = csClock + 1
  /\ UNCHANGED <<csCached, csCacheTime, csCachedAt, csCalls, nonCache>>

NextCache ==
  \/ \E i \in StatusCalls, f \in BOOLEAN : GetStatusCall(i, f)
  \/ \E i \in StatusCalls, st \in ProbedStatuses : ProbesDone(i, st)
  \/ ClearCache
  \/ ClockTick

InitCache ==
  GatewayInit /\ RouterIdle /\ RunnerIdle /\ TunnelInit /\ ManagersIdle

SpecCache == InitCache /\ [][NextCache]_vars

\* C30: a getStatus() call returns the cached status without probing exactly
\* when forceRefresh is not set, a status is cached, and less than the TTL
\* has passed since that status was cached; every other call probes, and when
\* its probes settle the cached status is the one it returns, the
\* not-installed one included, cached at that moment.
C30_CacheHitExactlyWithinTtl ==
  [][\A i \in StatusCalls :
       /\ (csCalls[i].pc = "unused" /\ csCalls'[i].pc # "unused") =>
            LET within == /\ csCached # NoCachedStatus
                          /\ (csClock - csCachedAt) < CACHE_TTL
                served == /\ csCalls'[i].pc = "done"
                          /\ csCalls'[i].hit
                          /\ csCalls'[i].result = csCached
            IN /\ served <=> (~csCalls'[i].force /\ within)
               /\ ~served => csCalls'[i].pc = "probing"
       /\ (csCalls[i].pc = "probing" /\ csCalls'[i].pc = "done") =>
            /\ csCalls'[i].result \in ProbedStatuses
            /\ csCached' = csCalls'[i].result
            /\ csCachedAt' = csClock]_vars

----------------------------------------------------------------------------
\* CLI discovery: the constructors of CodexManager and ClaudeManager
\* (codex.ts:26-214, claude.ts:50-233).  A path is a string; the file system
\* is the set lcFiles of the paths that exist.

\* a value of customCodexPath / customClaudePath (config.ts:45-46)
CustomPath == [codex |-> "/custom/codex", claude |-> "/custom/claude"]

\* possiblePaths, in the order of the list: its first two entries
possiblePaths ==
  [codex |-> <<"/usr/local/bin/codex", "/usr/bin/codex">>,
   claude |-> <<"/usr/local/bin/claude", "/usr/bin/claude">>]

\* a directory getNpmGlobalBin() can return, and path.join(npmBin, exe)
NpmDir == "/npm/bin"
NpmFile == [codex |-> "/npm/bin/codex", claude |-> "/npm/bin/claude"]

\* the first line a `which` in a login shell can print
WhichPath == [codex |-> "/login/bin/codex", claude |-> "/login/bin/claude"]

\* the loop over possiblePaths: the first entry that exists, "" when none does
firstExisting(paths) ==
  LET hits == {i \in DOMAIN paths : paths[i] \in lcFiles}
  IN IF hits = {} THEN ""
     ELSE paths[CHOOSE i \in hits : \A j \in hits : i <= j]

\* the file in the package manager's global bin directory, "" when
\* getNpmGlobalBin() returns null or the file does not exist
npmHit(mgr) ==
  IF lcNpmBin # "" /\ NpmFile[mgr] \in lcFiles THEN NpmFile[mgr] ELSE ""

\* `customPath && fs.existsSync(customPath)`
customHit(mgr) == lcConfig[mgr] # "" /\ lcConfig[mgr] \in lcFiles

\* the path is assigned and the constructor returns
found(mgr, path) ==
  /\ lcPath' = [lcPath EXCEPT ![mgr] = path]
  /\ lcPhase' = [lcPhase EXCEPT ![mgr] = "done"]

\* hardcoded paths, then the package manager's directory, then the call of
\* find...PathAsync(), which is left pending
searchFrom(mgr) ==
  IF firstExisting(possiblePaths[mgr]) # ""
    THEN found(mgr, firstExisting(possiblePaths[mgr]))
    ELSE IF npmHit(mgr) # ""
      THEN found(mgr, npmHit(mgr))
      ELSE /\ lcPhase' = [lcPhase EXCEPT ![mgr] = "which"]
           /\ UNCHANGED lcPath

\* new CodexManager(): findCodexPath()
findCodexPath ==
  /\ lcPhase["codex"] = "new"
  /\ IF customHit("codex")
       THEN found("codex", lcConfig["codex"])
       ELSE searchFrom("codex")
  /\ UNCHANGED <<lcConfig, lcFiles, lcNpmBin, lcWhich, nonLocator>>

\* new ClaudeManager(): findClaudePath()
findClaudePath ==
  /\ lcPhase["claude"] = "new"
  /\ searchFrom("claude")
  /\ UNCHANGED <<lcConfig, lcFiles, lcNpmBin, lcWhich, nonLocator>>

\* find...PathAsync() after `await this.runWhichCommand(...)`, which
\* resolves with the first line of the output or with null (close with a
\* non-zero code or no output, error, the 5 s timer)
WhichResolved(mgr, whichPath) ==
  /\ lcPhase[mgr] = "which"
  /\ lcWhich' = [lcWhich EXCEPT ![mgr] = whichPath]
  /\ lcPath' = IF whichPath # "" THEN [lcPath EXCEPT ![mgr] = whichPath]
               ELSE lcPath
  /\ lcPhase' = [lcPhase EXCEPT ![mgr] = "done"]
  /\ UNCHANGED <<lcConfig, lcFiles, lcNpmBin, nonLocator>>

NextLocator ==
  \/ findCodexPath
  \/ findClaudePath
  \/ \E m \in Managers : \E w \in {"", WhichPath[m]} : WhichResolved(m, w)

\* the machine: which overrides are configured, which files exist, whether
\* the package manager names a directory
LocatorFiles ==
  {CustomPath[m] : m \in Managers} \cup {NpmFile[m] : m \in Managers}
  \cup UNION {{possiblePaths[m][i] : i \in DOMAIN possiblePaths[m]} :
                m \in Managers}

InitLocator ==
  /\ GatewayInit /\ RouterIdle /\ RunnerIdle /\ TunnelInit /\ StreamsIdle
  /\ UsageIdle
  /\ lcConfig \in {c \in [Managers -> {""} \cup LocatorFiles] :
                     \A m \in Managers : c[m] \in {"", CustomPath[m]}}
  /\ lcFiles \in SUBSET LocatorFiles
  /\ lcNpmBin \in {"", NpmDir}
  /\ LocatorFresh

SpecLocator == InitLocator /\ [][NextLocator]_vars

\* C31: discovery is an ordered first match, for both managers: an override
\* that is set and whose file exists is the resolved path and nothing else
\* is consulted; otherwise the resolved path is the first hit among the
\* well-known directories, the package manager's global bin directory and
\* the which/where lookup, and the bare command name when none finds it.
C31_OrderedFirstMatch ==
  \A m \in Managers :
    lcPhase[m] = "done" =>
      IF customHit(m)
        THEN lcPath[m] = lcConfig[m] /\ lcWhich[m] = "unasked"
        ELSE IF firstExisting(possiblePaths[m]) # ""
          THEN lcPath[m] = firstExisting(possiblePaths[m])
          ELSE IF npmHit(m) # ""
            THEN lcPath[m] = npmHit(m)
            ELSE IF lcWhich[m] \notin {"unasked", ""}
              THEN lcPath[m] = lcWhich[m]
              ELSE lcPath[m] = BareName[m]

----------------------------------------------------------------------------
\* Concurrent generation requests and the responses store

\* a POST /v1/responses answered 200 in this step
postSucceeds ==
  reply = NoReply /\ reply'.route = RouteResponses /\ reply'.code = 200

\* a DELETE /v1/responses/:id answered 200 in this step
deleteSucceeds ==
  reply = NoReply /\ reply'.route = RouteDeleteResponse /\ reply'.code = 200

\* C32: whatever the order in which the agent calls of concurrent
\* POST /v1/responses requests complete, a POST that succeeds inserts one row
\* under its own id, which no stored row has, and touches no other row; a
\* successful DELETE removes one row; no other step changes the store.  The
\* store starts empty, so the number of rows is the number of successful
\* POSTs minus the number of successful DELETEs.
C32_IndependentInserts ==
  [][/\ postSucceeds =>
          /\ \A r \in responses : r.id # reply'.id
          /\ \E r \in responses' :
               /\ r.id = reply'.id
               /\ r.output_text = reply'.output_text
               /\ responses' = responses \cup {r}
          /\ Cardinality(responses') = Cardinality(responses) + 1
     /\ deleteSucceeds =>
          /\ responses' \subseteq responses
          /\ Cardinality(responses') = Cardinality(responses) - 1
     /\ ~postSucceeds /\ ~deleteSucceeds => responses' = responses]_vars

\* C32 witness: two requests were in flight together and the one posted last
\* completed first: its row is stored while the first one is still awaited
C32_Witness ==
  /\ reply.route = RouteResponses
  /\ reply.code = 200
  /\ \E r \in responses : r.id = reply.id
  /\ \E p \in pending : p.kind = "responses" /\ p.id < reply.id

\* a step of the handler of POST /v1/chat/completions: the request is
\* answered (401, 400, 200, 500) or suspended at the agent call
chatStep ==
  \/ reply = NoReply /\ reply'.route = RouteChat
  \/ \E p \in pending' \ pending : p.kind = "chat"

\* C33: POST /v1/chat/completions never writes the responses store: whether
\* the request is rejected, fails or succeeds, the rows that GET /v1/responses
\* returns are the same after each step of its handler as before it.
C33_ChatLeavesStoreAlone ==
  [][chatStep => responses' = responses]_vars

\* C33 witness: a chat completion succeeded while a response row was stored
C33_Witness ==
  /\ reply.route = RouteChat
  /\ reply.code = 200
  /\ reply.agent = "resolved"
  /\ responses # {}

----------------------------------------------------------------------------
\* Events of a stopped relay child

\* a close or data event of the child of call i is delivered in this step
childEvent(i) ==
  \/ \E code \in CloseCodes : ProcClose(i, code)
  \/ \E data \in OutputChunks : handleOutput(i, data)

\* C34: after start() (child A), stop(), start() (child B, URL detected), a
\* close or data event of A that is delivered while B is tracked and alive
\* leaves the tracked child, url and startedAt as they are, so that
\* getStatus() stays active with B's URL.
C34_StaleEventsIgnored ==
  [][\A i, j \in StartCalls :
       (/\ i # j
        /\ tnCalls[i].signalled /\ tnCalls[i].stopSeen
        /\ tnProcess = j /\ tnCalls[j].child = "alive"
        /\ tnUrl # NoUrl
        /\ childEvent(i)) =>
         /\ <<tnProcess, tnUrl, tnStartedAt>>' = <<tnProcess, tnUrl, tnStartedAt>>
         /\ getStatus'.active
         /\ getStatus'.url = tnUrl]_vars

\* C35: a public URL is reported only while a child is tracked: url and
\* startedAt are non-null only if the child reference is non-null, so a status
\* with active = false has url = null, also when output of a child arrives
\* after stop() was called for it.
C35_UrlOnlyWhileTracked ==
  /\ tnUrl # NoUrl => tnProcess # 0
  /\ tnStartedAt # NullTime => tnProcess # 0
  /\ ~getStatus.active => getStatus.url = NoUrl

----------------------------------------------------------------------------
\* Terminal callbacks of the streaming path

\* C36: for every spawnInteractive call exactly one terminal callback is
\* invoked, exactly once: never more than one invocation; once the child has
\* closed, onEnd if the exit code is 0 and onError otherwise, also after an
\* error event and after killProcess; in the not-installed path of the code
\* agent's manager no child is tracked and onError is invoked once.
C36_OneTerminalCallback ==
  \A id \in ProcIds :
    LET c == amProcs[id]
    IN c.mgr # "none" =>
         /\ Len(c.terminals) <= 1
         /\ c.child = "closed" =>
              c.terminals = <<IF c.exit = 0 THEN "onEnd" ELSE "onError">>
         /\ ~c.spawned =>
              /\ c.terminals = <<"onError">>
              /\ id \notin amActive[c.mgr]

----------------------------------------------------------------------------
\* Server start

\* getServerStatus(): running is `server !== null`
getServerStatus == [running |-> server]

\* C37: a failed start leaves the server as it was: after startServer was
\* rejected because the port is in use, getServerStatus().running is false,
\* so running is reported only while the server listens and a later
\* startServer call is not answered by the already-running guard.
C37_FailedStartLeavesStopped ==
  getServerStatus.running => listening

----------------------------------------------------------------------------
\* The usage object of the generation replies (server.ts:215-219, 319-323).
\* Only the lengths of the prompt and of the output matter.

\* the divisor of the character-length heuristic
CharsPerToken == 4

\* Math.ceil(length / 4) for a string length
tokensOf(length) == (length + CharsPerToken - 1) \div CharsPerToken

\* usage of POST /v1/responses (input_tokens, output_tokens, total_tokens)
\* and of POST /v1/chat/completions (prompt_tokens, completion_tokens,
\* total_tokens): the same three expressions
usageOf(route, promptLength, outputLength) ==
  [route |-> route,
   input |-> tokensOf(promptLength),
   output |-> tokensOf(outputLength),
   total |-> tokensOf(promptLength + outputLength)]

\* the reply of a successful POST /v1/responses is built
ResponsesUsage ==
  /\ usUsage = NoUsage
  /\ usUsage' = usageOf(RouteResponses, usLens.prompt, usLens.output)
  /\ UNCHANGED <<usLens, nonUsage>>

\* the reply of a successful POST /v1/chat/completions is built
ChatUsage ==
  /\ usUsage = NoUsage
  /\ usUsage' = usageOf(RouteChat, usLens.prompt, usLens.output)
  /\ UNCHANGED <<usLens, nonUsage>>

NextUsage ==
  \/ ResponsesUsage
  \/ ChatUsage

InitUsage ==
  /\ GatewayInit /\ RouterIdle /\ RunnerIdle /\ TunnelInit /\ StreamsIdle
  /\ LocatorIdle
  /\ usLens \in [prompt : 0..MaxChars, output : 0..MaxChars]
  /\ usUsage = NoUsage

SpecUsage == InitUsage /\ [][NextUsage]_vars

\* the ceiling of length / 4, as the least n with 4 * n >= length
ceilQuarter(length) ==
  CHOOSE n \in 0..length : 4 * n >= length /\ (n > 0 => 4 * (n - 1) < length)

\* C38: in every usage object of POST /v1/responses and of
\* POST /v1/chat/completions the token counts are the ceiling of the
\* character length divided by 4, and the total is the sum of the two counts,
\* for every pair of prompt and output lengths.
C38_UsageConsistent ==
  usUsage # NoUsage =>
    /\ usUsage.input = ceilQuarter(usLens.prompt)
    /\ usUsage.output = ceilQuarter(usLens.output)
    /\ usUsage.total = usUsage.input + usUsage.output


====
